---------------------------- MODULE Spec2Model ----------------------------
(***************************************************************************)
(* Poppy I/O: the requester (ModalRequest), the service (ModalService) and *)
(* the offer/result exchange (performSend / performRecv) between them.     *)
(*                                                                         *)
(* A JavaScript task (an API call, a message event, a timer) runs to       *)
(* completion and is followed by its microtasks (promise reactions) before *)
(* any other task of the same page runs.  Each action below is one task    *)
(* with its microtasks: the handlers are operators from a world record to  *)
(* a world record, composed the way the code calls them, and Drain runs    *)
(* the promise reactions the task queued.                                  *)
(***************************************************************************)
EXTENDS Integers, Sequences, FiniteSets, TLC

(* ------------------------------ bounds -------------------------------- *)

\* Requester sessions (ModalRequest objects) of the page.
NumSessions == 3

\* Intents in one list handed to open().
MaxIntents == 2

\* get-request messages one session answers (each arms a connect channel).
MaxChannels == 1

\* getRequest() calls the service page makes.
MaxGetRequestCalls == 2

Sessions == 1..NumSessions

(* ----------------------------- JS values ------------------------------ *)

\* A value posted on a port or returned by a callback: undefined, null, a
\* string, or an array of strings.
Undefined == [t |-> "undefined", s |-> "", a |-> <<>>]

Null == [t |-> "null", s |-> "", a |-> <<>>]

Str(x) == [t |-> "string", s |-> x, a |-> <<>>]

Arr(q) == [t |-> "array", s |-> "", a |-> q]

\* arrayify without the concat: only an array gives elements.
arrayifyNoConcat(data) ==
    [arr |-> IF data.t = "array" THEN data.a ELSE <<>>, raw |-> data]

\* function arrayify(data): [].concat(null/undefined ? [] : data), with .raw
arrayify(data) ==
    [arr |-> IF data.t \in {"null", "undefined"} THEN <<>>
             ELSE IF data.t = "array" THEN data.a
             ELSE <<data.s>>,
     raw |-> data]

(* --------------------------- Intents and Cats ------------------------- *)

Forms == {"f", "g"}

\* Stands for a form that is not a string (typeof form !== 'string').
NotAString == "#notastring"

\* Stands for a `having` left out of an Intent, and the {} it defaults to.
NoHaving == "{}"

\* The accepting/offering property of an Intent: left out, one form, or an
\* array of forms.
Absent == [p |-> "absent", f |-> <<>>]

One(form) == [p |-> "one", f |-> <<form>>]

Many(forms) == [p |-> "array", f |-> forms]

\* !!matcher.accepting: undefined is falsy, a form or an array is truthy.
Truthy(fs) == fs.p # "absent"

\* An Intent.  kind is how it connects: "connecting" (its own connecting
\* function), "posting" (a using callback) or "basic" (sending / replying).
Intent(obj, acc, off, having, kind, data) ==
    [obj |-> obj, accepting |-> acc, offering |-> off, having |-> having,
     kind |-> kind, data |-> data]

\* The loop over the forms leaving out the forms that are no strings.
FormsToCatsSkipsOthers(matcher, side, forms, cats) ==
    LET strings == SelectSeq(forms, LAMBDA form : form # NotAString)
    IN  [err |-> "",
         cats |-> cats \o [i \in 1..Len(strings) |->
                              [side |-> side, form |-> strings[i],
                               having |-> matcher.having,
                               kind |-> matcher.kind, data |-> matcher.data]]]

\* toCats: the forms of one matcher, in order (lines 554-560).
RECURSIVE FormsToCats(_, _, _, _)
FormsToCats(matcher, side, forms, cats) ==
    IF forms = <<>> THEN [err |-> "", cats |-> cats]
    ELSE IF Head(forms) = NotAString
         THEN [err |-> "MatcherFormNotAString", cats |-> <<>>]
    ELSE FormsToCats(matcher, side, Tail(forms),
            Append(cats, [side |-> side, form |-> Head(forms),
                          having |-> matcher.having,
                          kind |-> matcher.kind, data |-> matcher.data]))

\* toCats: the loop over the matchers (lines 538-561).
RECURSIVE MatchersToCats(_, _)
MatchersToCats(matching, cats) ==
    IF matching = <<>> THEN [err |-> "", cats |-> cats]
    ELSE LET matcher == Head(matching)
             side == IF Truthy(matcher.accepting) THEN "accepting" ELSE "offering"
             formOrForms == IF Truthy(matcher.accepting) THEN matcher.accepting
                            ELSE matcher.offering
             r == FormsToCats(matcher, side, formOrForms.f, cats)
         IN  IF ~matcher.obj
             THEN [err |-> "MatcherNotAnObject", cats |-> <<>>]
             ELSE IF Truthy(matcher.accepting) = Truthy(matcher.offering)
             THEN [err |-> "MatcherDoesNotHaveAcceptingXorOffering", cats |-> <<>>]
             ELSE IF r.err # "" THEN r
             ELSE MatchersToCats(Tail(matching), r.cats)

\* export function toCats(matching): the Cats, or the error it throws.
toCats(matching) == MatchersToCats(matching, <<>>)

(* ------------------------------ matchers ------------------------------ *)

OppositeSide(side) == IF side = "accepting" THEN "offering" ELSE "accepting"

\* The inner loop with the side test left out.
ScanPeerOptionsAnySide(cat, i, matching, j, sel) ==
    LET hits == {k \in j..Len(matching) : matching[k].form = cat.form}
    IN  IF hits = {} THEN sel
        ELSE <<i, CHOOSE k \in hits : \A k2 \in hits : k2 <= k>>

\* The inner loop keeping the first pairing found instead of the last.
ScanPeerOptionsFirstWins(cat, i, matching, j, sel) ==
    LET hits == {k \in j..Len(matching) :
                    matching[k].side # cat.side /\ matching[k].form = cat.form}
    IN  IF sel # <<0, 0>> \/ hits = {} THEN sel
        ELSE <<i, CHOOSE k \in hits : \A k2 \in hits : k <= k2>>

\* openRequest: the inner loop over State.request.matching (lines 214-219).
\* sel is <<index of matchingCat, index of peer>>, <<0, 0>> while unset.
RECURSIVE ScanPeerOptions(_, _, _, _, _)
ScanPeerOptions(cat, i, matching, j, sel) ==
    IF j > Len(matching) THEN sel
    ELSE ScanPeerOptions(cat, i, matching, j + 1,
            IF matching[j].side = OppositeSide(cat.side) /\ matching[j].form = cat.form
            THEN <<i, j>> ELSE sel)

\* openRequest: the outer loop over toCats(matching) (lines 212-220).
RECURSIVE ScanCats(_, _, _, _)
ScanCats(cats, i, matching, sel) ==
    IF i > Len(cats) THEN sel
    ELSE ScanCats(cats, i + 1, matching,
                  ScanPeerOptions(cats[i], i, matching, 1, sel))

\* The loops falling back on the last Cat and the last option when no pair is
\* eligible.
ServiceMatchFallsBack(cats, matching) ==
    LET sel == ScanCats(cats, 1, matching, <<0, 0>>)
    IN  IF sel = <<0, 0>> /\ cats # <<>> /\ matching # <<>>
        THEN <<Len(cats), Len(matching)>> ELSE sel

\* openRequest's match of the service's Cats against the captured options.
ServiceMatch(cats, matching) == ScanCats(cats, 1, matching, <<0, 0>>)

\* The loop over cats keeping the first Cat found instead of the last.
ScanOwnCatsFirstWins(cats, i, side, form, matchedCat) ==
    LET hits == {k \in i..Len(cats) : cats[k].side # side /\ cats[k].form = form}
    IN  IF matchedCat # 0 \/ hits = {} THEN matchedCat
        ELSE CHOOSE k \in hits : \A k2 \in hits : k <= k2

\* onConnect: the loop over cats (lines 761-770); 0 while matchedCat is unset.
RECURSIVE ScanOwnCats(_, _, _, _, _)
ScanOwnCats(cats, i, side, form, matchedCat) ==
    IF i > Len(cats) THEN matchedCat
    ELSE ScanOwnCats(cats, i + 1, side, form,
            IF cats[i].side = side THEN matchedCat
            ELSE IF cats[i].form # form THEN matchedCat
            ELSE i)

\* onConnect's match of the requester's Cats against the one selection.
RequesterMatch(cats, side, form) == ScanOwnCats(cats, 1, side, form, 0)

(* ------------------------------ promises ------------------------------ *)

\* null where a PeerIntent is expected ({matched: null}).
NoPeer == [origin |-> "", side |-> "", form |-> "", having |-> ""]

\* No value: a promise not resolved, or a result without a value field.
NoValue == [arr |-> <<>>, raw |-> [t |-> "none", s |-> "", a |-> <<>>]]

Pending == [st |-> "pending", matched |-> NoPeer, value |-> NoValue, err |-> ""]

\* {matched: null}
NotMatched == [st |-> "resolved", matched |-> NoPeer, value |-> NoValue, err |-> ""]

\* {matched: peer, value}
Matched(peer, value) == [st |-> "resolved", matched |-> peer, value |-> value, err |-> ""]

\* A promise resolved with a plain value (the promise of a Cat's connect).
Fulfilled(value) == [st |-> "resolved", matched |-> NoPeer, value |-> value, err |-> ""]

Rejected(reason) == [st |-> "rejected", matched |-> NoPeer, value |-> NoValue, err |-> reason]

\* resolve / reject of a promise: only the first call settles it.
Settle(p, outcome) == IF p.st = "pending" THEN outcome ELSE p

\* cancel() without a rejectWith value (a falsy reason).
NoReason == ""

(* ------------------------------- origins ------------------------------- *)

\* location.origin of the requester page.
ReqOrigin == "https://requester.example"

\* Origin of the service loaded into the popup.
SvcOrigin == "https://service.example"

\* Some other origin.
EvilOrigin == "https://evil.example"

(* ------------------------- exchange closures --------------------------- *)

\* The variables performSend / performRecv close over, and the promise the
\* Cat's connect returned (p).  role is "none" before any connect, "send"
\* (performSend), "recv" (performRecv) or "user" (a connecting function).
\* via records which of postOffer's two resolve calls settled its promise:
\* "reply" (line 588) or "closing" (line 602).  ports is performRecv's
\* ports: "none" while undefined, then the state of the ports that came
\* with the offer, "open" or "closed".
NoXch ==
    [role |-> "none", p |-> Pending, onmessage |-> FALSE,
     offerPosted |-> FALSE, sendWaitingForResult |-> FALSE,
     waitingForOffer |-> FALSE, waitingForCallback |-> FALSE,
     waitingForAck |-> FALSE, waitingForResult |-> FALSE,
     offer |-> NoValue, resolveValue |-> NoValue, postResultPromise |-> "none",
     via |-> "", staleHandler |-> FALSE, callbackPromise |-> "none",
     ports |-> "none"]

(* -------------------------------- state -------------------------------- *)

VARIABLES
    current,   \* ModalRequest.current: a session, or 0 for undefined
    req,       \* per session: the variables of createZImpl's closure
    svc,       \* the service page: class State and openRequest's closure
    call       \* the last API call and what it returned synchronously

vars == <<current, req, svc, call>>

\* createZImpl (lines 503-526, 733-734): a session as constructed.  The
\* channels holds, per connectChannel armed, the origin its handler closes
\* over; connectCalls counts the calls of matchedCat.connect (line 781).  The queues hold what the session posted: toPopup
\* (popup.postMessage), exOut and stOut (its exchange and status port).
NewSession ==
    [state |-> "created", cats |-> <<>>, proxy |-> "none", pioc |-> FALSE,
     popup |-> "none", listening |-> FALSE, serviceOrigin |-> ReqOrigin,
     openPromise |-> Pending, closingPromise |-> FALSE,
     exchangePort |-> "unset", statusPort |-> "unset", channels |-> <<>>,
     peer |-> NoPeer, matchedCat |-> 0, connectCalls |-> 0, xch |-> NoXch,
     toPopup |-> <<>>, exOut |-> <<>>, stOut |-> <<>>]

\* class State (lines 192-198) of a freshly loaded service page, and the
\* variables of openRequest.  connectPort is the connectChannel whose port1
\* the page holds, 0 for none; results holds, per getRequest call, what its
\* promise resolved with; unloaded is set once the page is gone.  The queues
\* hold what the page posted: toOpener
\* (opener.postMessage), connectOut (State.connectPort), exOut and stOut
\* (exchangeChannel.port2 and statusChannel.port2).
NewService ==
    [listening |-> FALSE, lastWaitingKey |-> 0, waiting |-> {},
     hasRequest |-> FALSE, matching |-> <<>>, connectPort |-> 0,
     opened |-> FALSE, openPromise |-> Pending, closingPromise |-> FALSE,
     exchangePort |-> "unset", statusPort |-> "unset",
     peer |-> NoPeer, matchingCat |-> 0, cats |-> <<>>, xch |-> NoXch,
     results |-> <<>>, unloaded |-> FALSE,
     toOpener |-> <<>>, connectOut |-> <<>>, exOut |-> <<>>, stOut |-> <<>>]

\* No window message, and no connect message.
NoMessage == [fromPopup |-> FALSE, origin |-> "", body |-> "", arg |-> ""]

NoConnect == [tag |-> "", side |-> "", form |-> "", having |-> "", ports |-> 0]

\* The last task: the operation or handler (op), the session it ran on (s, 0
\* for none), what it returned or threw to its caller (ret), and what it was
\* given: the reason of a cancel (arg), the window message (msg), the connect
\* message (c), the Intents an open() read (intents).
NoCall ==
    [op |-> "none", s |-> 0, ret |-> "", arg |-> "", msg |-> NoMessage,
     c |-> NoConnect, intents |-> <<>>]

\* The state a task starts from, with its (empty) microtask queue and the
\* exception it throws ("" for none).
World ==
    [current |-> current, req |-> req, svc |-> svc, mq |-> <<>>, threw |-> "",
     ret |-> ""]

(* ------------------------ ports and microtasks ------------------------- *)

\* who is a session of the requester page, or 0 for the service page.
XchOf(w, who) == IF who = 0 THEN w.svc.xch ELSE w.req[who].xch

SetXch(w, who, x) ==
    IF who = 0 THEN [w EXCEPT !.svc.xch = x] ELSE [w EXCEPT !.req[who].xch = x]

ClosingOf(w, who) ==
    IF who = 0 THEN w.svc.closingPromise ELSE w.req[who].closingPromise

ExchangePortOf(w, who) ==
    IF who = 0 THEN w.svc.exchangePort ELSE w.req[who].exchangePort

\* The Cat whose connect is running.
CatOf(w, who) ==
    IF who = 0 THEN w.svc.cats[w.svc.matchingCat]
    ELSE w.req[who].cats[w.req[who].matchedCat]

\* A promise reaction queued as a microtask.
Enqueue(w, k, who, d, v) ==
    [w EXCEPT !.mq = Append(@, [k |-> k, who |-> who, d |-> d, v |-> v])]

\* port.postMessage(data) on the exchange port; a closed port posts nothing.
PostExchange(w, who, data) ==
    IF ExchangePortOf(w, who) # "open" THEN w
    ELSE IF who = 0 THEN [w EXCEPT !.svc.exOut = Append(@, data)]
    ELSE [w EXCEPT !.req[who].exOut = Append(@, data)]

\* statusPort.postMessage(['done']); a closed port posts nothing.
PostDone(w, who) ==
    IF who = 0
    THEN IF w.svc.statusPort # "open" THEN w
         ELSE [w EXCEPT !.svc.stOut = Append(@, "done")]
    ELSE IF w.req[who].statusPort # "open" THEN w
         ELSE [w EXCEPT !.req[who].stOut = Append(@, "done")]

\* A promise that every resolve settles again.
SettleConnectAgain(w, who, outcome) ==
    Enqueue(SetXch(w, who, [XchOf(w, who) EXCEPT !.p = outcome]),
            "connectThen", who, Undefined, NoValue)

\* The promise connect returned settles: its reaction (the then of onConnect,
\* lines 781-787, or of openRequest, lines 246-255) is queued.
SettleConnect(w, who, outcome) ==
    LET x == XchOf(w, who)
    IN  IF x.p.st # "pending" THEN w
        ELSE Enqueue(SetXch(w, who, [x EXCEPT !.p = outcome]),
                     "connectThen", who, Undefined, NoValue)

\* resolveClosing() / resolve() of the closing promise: the reactions that
\* performRecv (line 690) and postOffer (line 602) registered are queued.
ResolveClosing(w, who) ==
    LET x == XchOf(w, who)
        w1 == IF who = 0 THEN [w EXCEPT !.svc.closingPromise = TRUE]
              ELSE [w EXCEPT !.req[who].closingPromise = TRUE]
    IN  IF ClosingOf(w, who) THEN w
        ELSE IF x.role = "recv" \/ (x.role = "send" /\ x.offerPosted)
        THEN Enqueue(w1, "closing", who, Undefined, NoValue)
        ELSE w1

(* ------------------------------ performSend ---------------------------- *)

\* A test that lets every call of postOffer post.
OfferAlreadyPostedNever(offerPosted) == FALSE

\* if (offerPosted) of postOffer (lines 592-594).
OfferAlreadyPosted(offerPosted) == offerPosted

\* postOffer (lines 583-603).  Every call assigns port.onmessage a closure over
\* its own resolve and waitingForResult before it tests offerPosted; a call
\* that is rejected returns before its waitingForResult is initialised
\* (line 601), so the handler it leaves (staleHandler) finds the variable
\* uninitialised when a message comes: it throws, or reads undefined in an
\* ES5 build, and does nothing either way.  ret is what the call returns: a
\* promise, or one rejected with OfferAlreadyPosted.
postOffer(w, who, data) ==
    LET x == XchOf(w, who)
        w1 == SetXch(w, who, [x EXCEPT !.onmessage = TRUE, !.offerPosted = TRUE,
                                       !.sendWaitingForResult = TRUE])
        w2 == [PostExchange(w1, who, data) EXCEPT !.ret = "offerPromise"]
    IN  IF OfferAlreadyPosted(x.offerPosted)
        THEN [SetXch(w, who, [x EXCEPT !.onmessage = TRUE, !.staleHandler = TRUE])
                 EXCEPT !.ret = "OfferAlreadyPosted"]
        ELSE IF ClosingOf(w, who)
        THEN Enqueue(w2, "closing", who, Undefined, NoValue)
        ELSE w2

\* performSend (lines 581-615).  Of a basic offer, sending, a literal, is sent
\* once Promise.resolve(sending) has run its reaction.  Of a posting offer,
\* matcher.using is given postOffer (lines 608-610): its code calls it when it
\* likes, and returns the promise of its first call.
performSend(w, who, matcher) ==
    IF matcher.kind = "posting"
    THEN SetXch(w, who, [NoXch EXCEPT !.role = "send"])
    ELSE Enqueue(SetXch(w, who, [NoXch EXCEPT !.role = "send"]),
                 "sending", who, matcher.data, NoValue)

\* port.onmessage resolving without the data of the message.
SendOnMessageIgnoresData(w, who, data) ==
    LET x == XchOf(w, who)
        w1 == SetXch(w, who, [x EXCEPT !.sendWaitingForResult = FALSE,
                                       !.via = IF x.p.st = "pending" THEN "reply"
                                               ELSE @])
        w2 == SettleConnect(w1, who, Fulfilled(arrayify(Undefined)))
    IN  IF x.sendWaitingForResult /\ ~x.staleHandler
        THEN PostExchange(w2, who, Null) ELSE w

\* port.onmessage set by postOffer (lines 584-591).
SendOnMessage(w, who, data) ==
    LET x == XchOf(w, who)
        w1 == SetXch(w, who, [x EXCEPT !.sendWaitingForResult = FALSE,
                                       !.via = IF x.p.st = "pending" THEN "reply"
                                               ELSE @])
        w2 == SettleConnect(w1, who, Fulfilled(arrayify(data)))
    IN  IF x.sendWaitingForResult /\ ~x.staleHandler
        THEN PostExchange(w2, who, Null) ELSE w

\* closing.then of postOffer (line 602).
SendOnClosing(w, who) ==
    LET x == XchOf(w, who)
        w1 == SetXch(w, who, [x EXCEPT !.via = IF x.p.st = "pending" THEN "closing"
                                               ELSE @])
    IN  SettleConnect(w1, who, Fulfilled(arrayify(Undefined)))

(* ------------------------------ performRecv ---------------------------- *)

\* performRecv (lines 617-627, 690): the closure as set up, port.onmessage
\* assigned and the closing reaction registered.
performRecv(w, who, matcher) ==
    LET x == [NoXch EXCEPT !.role = "recv", !.onmessage = TRUE,
                           !.waitingForOffer = TRUE, !.waitingForAck = TRUE,
                           !.waitingForResult = TRUE,
                           !.resolveValue = arrayify(Undefined),
                           !.postResultPromise = "pending"]
        w1 == SetXch(w, who, x)
    IN  IF ClosingOf(w, who) THEN Enqueue(w1, "closing", who, Undefined, NoValue)
        ELSE w1

\* A test that lets every call of postResult post.
ResultAlreadyPostedNever(waitingForResult) == FALSE

\* if (!waitingForResult) of postResult (lines 634-636).
ResultAlreadyPosted(waitingForResult) == ~waitingForResult

\* postResult (lines 633-644); a second call returns a rejected promise and
\* posts nothing.  ret is what the call returns: postResultPromise, or a
\* promise rejected with ResultAlreadyPosted.
postResult(w, who, data) ==
    LET x == XchOf(w, who)
    IN  IF ResultAlreadyPosted(x.waitingForResult)
        THEN [w EXCEPT !.ret = "ResultAlreadyPosted"]
        ELSE [PostExchange(SetXch(w, who, [x EXCEPT !.waitingForResult = FALSE]),
                           who, data) EXCEPT !.ret = "postResultPromise"]

\* port.onmessage of performRecv (lines 628-689): the offer, then the
\* acknowledgment.  A basic acceptor's callbackPromise is the reaction of
\* Promise.resolve(replying); a posting acceptor's is what matcher.using
\* returned, settled by the caller's code.
RecvOnMessage(w, who, data) ==
    LET x == XchOf(w, who)
        offered == SetXch(w, who, [x EXCEPT !.waitingForOffer = FALSE,
                                            !.offer = arrayify(data),
                                            !.ports = "open",
                                            !.waitingForCallback = TRUE])
        acked == PostExchange(
                    SetXch(w, who, [x EXCEPT !.waitingForAck = FALSE,
                              !.postResultPromise =
                                  IF @ = "pending" THEN "true" ELSE @]),
                    who, Null)
    IN  IF x.waitingForOffer
        THEN IF CatOf(w, who).kind = "posting"
             THEN SetXch(w, who, [XchOf(offered, who) EXCEPT
                                     !.callbackPromise = "pending"])
             ELSE Enqueue(offered, "replying", who, CatOf(w, who).data, NoValue)
        ELSE IF x.waitingForAck
        THEN IF ~x.waitingForCallback
             THEN SettleConnect(acked, who, Fulfilled(x.resolveValue))
             ELSE acked
        ELSE w

\* The reaction of Promise.resolve(replying) (lines 657-660): the reply is
\* posted and callbackPromise resolves with offer.data.
RecvReplying(w, who, value) ==
    Enqueue(postResult(w, who, value), "callback", who, Undefined,
            XchOf(w, who).offer)

\* A fulfilment reaction without the automatic post.
RecvCallbackPostsNothing(w, who, value) ==
    LET x == XchOf(w, who)
        w1 == SetXch(w, who, [x EXCEPT !.waitingForCallback = FALSE,
                                       !.resolveValue = value])
    IN  IF x.waitingForResult \/ x.waitingForAck THEN w1
        ELSE SettleConnect(w1, who, Fulfilled(value))

\* The fulfilment reaction of callbackPromise (lines 663-671).
RecvCallback(w, who, value) ==
    LET x == XchOf(w, who)
        w1 == SetXch(w, who, [x EXCEPT !.waitingForCallback = FALSE,
                                       !.resolveValue = value])
    IN  IF x.waitingForResult THEN postResult(w1, who, Null)
        ELSE IF ~x.waitingForAck THEN SettleConnect(w1, who, Fulfilled(value))
        ELSE w1

\* A rejection reaction that resolves with what there is once closing fired.
RecvCallbackRejectedUnlessClosing(w, who, reason) ==
    LET w1 == SetXch(w, who, [XchOf(w, who) EXCEPT !.waitingForCallback = FALSE])
    IN  IF ClosingOf(w, who)
        THEN SettleConnect(w1, who, Fulfilled(XchOf(w, who).resolveValue))
        ELSE SettleConnect(w1, who, Rejected(reason))

\* The rejection reaction of callbackPromise (lines 673-676).
RecvCallbackRejected(w, who, reason) ==
    SettleConnect(SetXch(w, who, [XchOf(w, who) EXCEPT !.waitingForCallback = FALSE]),
                  who, Rejected(reason))

\* A closing reaction that leaves the ports while the callback is pending.
RecvOnClosingKeepsPorts(w, who) ==
    LET x == XchOf(w, who)
        w1 == SetXch(w, who, [x EXCEPT !.waitingForAck = FALSE,
                                !.postResultPromise =
                                    IF @ = "pending" THEN "false" ELSE @])
        w2 == SetXch(w1, who, [XchOf(w1, who) EXCEPT
                                !.ports = IF @ = "open" THEN "closed" ELSE @])
    IN  IF ~x.waitingForCallback
        THEN SettleConnect(w2, who, Fulfilled(x.resolveValue))
        ELSE w1

\* closing.then of performRecv (lines 690-701): the ports that came with the
\* offer are closed whether or not the promise is resolved.
RecvOnClosing(w, who) ==
    LET x == XchOf(w, who)
        w1 == SetXch(w, who, [x EXCEPT !.waitingForAck = FALSE,
                                !.ports = IF @ = "open" THEN "closed" ELSE @,
                                !.postResultPromise =
                                    IF @ = "pending" THEN "false" ELSE @])
    IN  IF ~x.waitingForCallback
        THEN SettleConnect(w1, who, Fulfilled(x.resolveValue))
        ELSE w1

\* toCats' connect of a Cat (lines 546-553).  A connecting function is the
\* caller's: the promise it returns is settled by the caller's code.
Connect(w, who, cat) ==
    IF cat.kind = "connecting" THEN SetXch(w, who, [NoXch EXCEPT !.role = "user"])
    ELSE IF cat.side = "accepting" THEN performRecv(w, who, cat)
    ELSE performSend(w, who, cat)

(* ------------------------------ requester: x --------------------------- *)

\* x resolving open() NotMatched whenever it is given no reason.
SettleOpenIgnoresConnect(p, reason, exchangePort) ==
    IF reason # NoReason THEN Settle(p, Rejected(reason))
    ELSE Settle(p, NotMatched)

\* x leaving open() to the connect in progress even when given a reason.
SettleOpenSparesConnect(p, reason, exchangePort) ==
    IF exchangePort # "unset" THEN p
    ELSE IF reason # NoReason THEN Settle(p, Rejected(reason))
    ELSE Settle(p, NotMatched)

\* if (reason) rejectOpen(reason); else if (!exchangePort)
\* resolveOpen({matched: null}) of x (lines 804-809).
SettleOpen(p, reason, exchangePort) ==
    IF reason # NoReason THEN Settle(p, Rejected(reason))
    ELSE IF exchangePort = "unset" THEN Settle(p, NotMatched)
    ELSE p

\* A test that lets x run again on a complete session.
IsCompleteNever(state) == FALSE

\* if (state === 'complete') return; of x (lines 791-793).
IsComplete(state) == state = "complete"

\* x (lines 790-823).  proxy.contentWindow.pioc is defined only once
\* installInlineEventHandlers has run: calling it before is a TypeError,
\* thrown after state and ModalRequest.current were updated.
X(w, s, reason) ==
    LET r == w.req[s]
        w1 == [w EXCEPT !.req[s].state = "complete",
                        !.current = IF @ = s THEN 0 ELSE @]
        w2 == [w1 EXCEPT !.req[s].proxy = IF @ = "attached" THEN "removed" ELSE @,
                         !.req[s].popup =
                             IF r.proxy = "attached" /\ @ = "open" THEN "closed" ELSE @]
        w3 == ResolveClosing(w2, s)
        w4 == [w3 EXCEPT !.req[s].openPromise =
                  SettleOpen(@, reason, r.exchangePort)]
        w5 == [w4 EXCEPT !.req[s].exchangePort = IF @ = "unset" THEN @ ELSE "closed"]
        w6 == [PostDone(w5, s) EXCEPT
                  !.req[s].statusPort = IF @ = "unset" THEN @ ELSE "closed"]
    IN  IF IsComplete(r.state) THEN w
        ELSE IF r.proxy = "attached" /\ ~r.pioc THEN [w1 EXCEPT !.threw = "TypeError"]
        ELSE w6

\* The reaction completing the session as soon as open has resolved.
ReqConnectThenCompletes(w, s) ==
    LET p == w.req[s].xch.p
        w1 == [PostDone(w, s) EXCEPT !.req[s].openPromise =
                  Settle(@, Matched(w.req[s].peer, p.value))]
    IN  IF p.st = "resolved" THEN X(w1, s, NoReason) ELSE X(w, s, p.err)

\* The reaction to the promise of matchedCat.connect (lines 781-787).
ReqConnectThen(w, s) ==
    LET p == w.req[s].xch.p
    IN  IF p.st = "resolved"
        THEN [PostDone(w, s) EXCEPT !.req[s].openPromise =
                 Settle(@, Matched(w.req[s].peer, p.value))]
        ELSE X(w, s, p.err)

(* ------------------------- service: closePorts ------------------------- *)

\* closePorts (lines 226-230).
closePorts(w) ==
    LET w1 == [w EXCEPT !.svc.exchangePort = "closed"]
    IN  [PostDone(w1, 0) EXCEPT !.svc.statusPort = "closed"]

\* The reaction to the promise of matchingCat.connect (lines 246-255).
SvcConnectThen(w) ==
    LET p == w.svc.xch.p
    IN  closePorts([w EXCEPT !.svc.openPromise =
            IF p.st = "resolved" THEN Settle(@, Matched(w.svc.peer, p.value))
            ELSE Settle(@, Rejected(p.err))])

(* ------------------------------ microtasks ----------------------------- *)

\* One promise reaction.  An exception it throws rejects a promise nobody
\* waits for.
RunMicrotask(w, m) ==
    LET w1 ==
        CASE m.k = "sending" -> postOffer(w, m.who, m.d)
          [] m.k = "replying" -> RecvReplying(w, m.who, m.d)
          [] m.k = "callback" -> RecvCallback(w, m.who, m.v)
          [] m.k = "callbackRejected" -> RecvCallbackRejected(w, m.who, m.d.s)
          [] m.k = "closing" ->
                IF XchOf(w, m.who).role = "send" THEN SendOnClosing(w, m.who)
                ELSE RecvOnClosing(w, m.who)
          [] m.k = "connectThen" ->
                IF m.who = 0 THEN SvcConnectThen(w) ELSE ReqConnectThen(w, m.who)
          [] OTHER -> w
    IN  [w1 EXCEPT !.threw = ""]

\* The microtask checkpoint after a task: reactions run in the order they
\* were queued, those they queue included.
RECURSIVE Drain(_)
Drain(w) ==
    IF w.mq = <<>> THEN w
    ELSE Drain(RunMicrotask([w EXCEPT !.mq = Tail(@)], Head(w.mq)))

\* A task ends: its microtasks run, and the state it leaves is the next one.
CommitCall(w, op, s, arg, msg, c) ==
    LET w1 == Drain(w)
    IN  /\ current' = w1.current
        /\ req' = w1.req
        /\ svc' = w1.svc
        /\ call' = [op |-> op, s |-> s, ret |-> w.ret, arg |-> arg,
                    msg |-> msg, c |-> c, intents |-> <<>>]

\* The task of an open() call that was given the Intents matching.
CommitOpen(w, s, matching) ==
    LET w1 == Drain(w)
    IN  /\ current' = w1.current
        /\ req' = w1.req
        /\ svc' = w1.svc
        /\ call' = [NoCall EXCEPT !.op = "open", !.s = s, !.ret = w.ret,
                                  !.intents = matching]

Commit(w, op, s) == CommitCall(w, op, s, "", NoMessage, NoConnect)

(* ------------------------------ requester: o --------------------------- *)

\* The service URL a request is given.
ServiceUrl == "https://service.example/pick"

\* parseOrigin (lines 565-573) on the URLs of the model: ServiceUrl is
\* absolute, anything else has no scheme and falls back to relativeTo.
parseOrigin(url, relativeTo) ==
    IF url = ServiceUrl THEN SvcOrigin ELSE relativeTo

\* try { ... } catch (e) { rejectOpen(e) } of o (lines 727-729).
CatchRejectOpen(w, s, e) ==
    [w EXCEPT !.req[s].openPromise = Settle(@, Rejected(e)),
              !.threw = "", !.ret = "openPromise"]

\* The test refusing only a session that is complete.
AlreadyOpenedOnlyComplete(state) == state = "complete"

\* The test that lets open() run in every state.
AlreadyOpenedNever(state) == FALSE

\* if (state !== 'created') of o (line 530).
AlreadyOpened(state) == state # "created"

\* o (lines 528-731).  in is what open() is given and finds: the Intents,
\* request.service ("" when neither service nor launcher is set), whether
\* the browser blocks the popup, and whether request.overlay resolves.
O(w, s, in) ==
    LET w1 == [w EXCEPT !.req[s].state = "open"]
        w2 == IF w1.current # 0 THEN X(w1, w1.current, NoReason) ELSE w1
        w3 == [w2 EXCEPT !.current = s]
        c  == toCats(in.intents)
        w4 == [w3 EXCEPT !.req[s].cats = c.cats, !.req[s].proxy = "attached"]
        w5 == [w4 EXCEPT !.req[s].pioc = TRUE]
        w6 == [w5 EXCEPT !.req[s].popup = "open",
                         !.req[s].serviceOrigin = parseOrigin(in.service, @)]
        w7 == [w6 EXCEPT !.req[s].listening = TRUE, !.ret = "openPromise"]
    IN  IF AlreadyOpened(w.req[s].state) THEN [w EXCEPT !.ret = "AlreadyOpened"]
        ELSE IF w2.threw # "" THEN CatchRejectOpen(w2, s, w2.threw)
        ELSE IF c.err # "" THEN CatchRejectOpen(w3, s, c.err)
        ELSE IF in.service = "" THEN CatchRejectOpen(w4, s, "NothingToOpen")
        ELSE IF in.popupBlocked THEN CatchRejectOpen(w5, s, "PopupBlocked")
        ELSE IF ~in.overlayOk THEN CatchRejectOpen(w6, s, "OverlayNotFound")
        ELSE w7

\* A catch that drops the exception.
CatchXSwallows(w, s) == [w EXCEPT !.threw = ""]

\* try { ... } catch (e) { x(e) } around the handlers (lines 558-563, 713-717,
\* 721-725); what x itself throws is reported and lost.
CatchX(w, s) ==
    IF w.threw = "" THEN w ELSE [X([w EXCEPT !.threw = ""], s, w.threw) EXCEPT !.threw = ""]

\* The 'request' message of lines 706-711: the Cats without their connect.
RequestBody(cats) ==
    [i \in 1..Len(cats) |->
        [side |-> cats[i].side, having |-> cats[i].having, form |-> cats[i].form]]

\* A test that trusts the popup whatever origin its page has.
TrustedAnyOrigin(m, serviceOrigin) == m.fromPopup

\* The negation of if (!fromPopup || serviceOrigin !== m.origin) return;
\* (lines 692-694).
Trusted(m, serviceOrigin) == m.fromPopup /\ serviceOrigin = m.origin

\* onCrossDocumentMessage (lines 680-719) with the try/catch of lines 720-726.
\* m is [fromPopup, origin, body]: body is "notarray" or the message kind, arg
\* the origin a change-origin carries ("" when it is not a string).
onCrossDocumentMessage(w, s, m) ==
    LET r == w.req[s]
        armed == [w EXCEPT !.req[s].channels = Append(@, m.origin),
                           !.req[s].toPopup = Append(@,
                               [targetOrigin |-> m.origin, list |-> RequestBody(r.cats),
                                port |-> Len(r.channels) + 1])]
    IN  CatchX(
          IF m.body = "notarray" THEN w
          ELSE IF m.body = "close"
          THEN IF m.fromPopup \/ r.popup = "closed" THEN X(w, s, NoReason) ELSE w
          ELSE IF ~Trusted(m, r.serviceOrigin) THEN w
          ELSE IF m.body = "change-origin"
          THEN IF m.arg = "" THEN [w EXCEPT !.threw = "MissingOrigin"]
               ELSE [w EXCEPT !.req[s].serviceOrigin = m.arg]
          ELSE IF m.body # "get-request" THEN [w EXCEPT !.threw = "UnrecognizedMessage"]
          ELSE armed, s)

\* Stands for a `having` that is not an object.
NotAnObject == "#notanobject"

\* A test that lets every connect message through.
AlreadyConnectedNever(exchangePort) == FALSE

\* if (exchangePort) of onConnect (lines 736-738).
AlreadyConnected(exchangePort) == exchangePort # "unset"

\* onConnect (lines 735-788) with the try/catch of lines 558-563.  c is the
\* message: [tag, side, form, having, ports], ports the number of ports.
onConnect(w, s, origin, c) ==
    LET r == w.req[s]
        peer == [origin |-> origin, side |-> c.side, form |-> c.form, having |-> c.having]
        matchedCat == RequesterMatch(r.cats, c.side, c.form)
        w1 == [w EXCEPT !.req[s].exchangePort = "open", !.req[s].statusPort = "open",
                        !.req[s].peer = peer, !.req[s].matchedCat = matchedCat,
                        !.req[s].connectCalls = @ + 1]
    IN  CatchX(
          IF AlreadyConnected(r.exchangePort)
          THEN [w EXCEPT !.threw = "AlreadyConnected"]
          ELSE IF c.tag # "connect" \/ c.ports # 2
                  \/ c.side \notin {"accepting", "offering"}
                  \/ c.form = NotAString \/ c.having = NotAnObject
          THEN [w EXCEPT !.threw = "InvalidConnectMessage"]
          ELSE IF matchedCat = 0 THEN [w EXCEPT !.threw = "NoMatchingConnector"]
          ELSE Connect(w1, s, r.cats[matchedCat]), s)

(* -------------------------------- service ------------------------------ *)

\* The message listener's loop over body[1] (lines 102-119): entries without
\* a side or a string form are dropped, a having that is no object becomes {}.
RECURSIVE FilterMatching(_, _, _)
FilterMatching(list, origin, matching) ==
    IF list = <<>> THEN matching
    ELSE LET match == Head(list)
         IN  FilterMatching(Tail(list), origin,
                IF match.side \notin {"accepting", "offering"} THEN matching
                ELSE IF match.form = NotAString THEN matching
                ELSE Append(matching,
                        [form |-> match.form, side |-> match.side,
                         having |-> IF match.having = NotAnObject THEN NoHaving
                                    ELSE match.having,
                         origin |-> origin]))

\* finish (lines 139-145) of the getRequest call that waits under key.
Finish(sv, key, result) ==
    [sv EXCEPT !.waiting = @ \ {key},
               !.results = [i \in DOMAIN @ |->
                               IF @[i].key = key /\ @[i].st = "pending"
                               THEN [@[i] EXCEPT !.st = result] ELSE @[i]]]

\* for (let key of Object.keys(State.waiting)) State.waiting[key](req)
\* (lines 124-126).
RECURSIVE FinishAll(_, _)
FinishAll(sv, keys) ==
    IF keys = {} THEN sv
    ELSE LET key == CHOOSE k \in keys : \A k2 \in keys : k <= k2
         IN  FinishAll(Finish(sv, key, "request"), keys \ {key})

\* ModalService.getRequest (lines 60-148): an immediate answer once a request
\* was captured; else the first call posts get-request and listens, and every
\* call waits under a fresh key.
getRequest(w) ==
    LET sv == w.svc
        key == sv.lastWaitingKey + 1
        first == [sv EXCEPT !.listening = TRUE,
                            !.toOpener = Append(@, [origin |-> SvcOrigin,
                                                    body |-> "get-request", arg |-> ""])]
        armed == IF sv.listening THEN sv ELSE first
    IN  IF sv.hasRequest
        THEN [w EXCEPT !.svc.results = Append(@, [key |-> 0, st |-> "request"])]
        ELSE [w EXCEPT !.svc = [armed EXCEPT !.lastWaitingKey = key,
                                             !.waiting = @ \cup {key},
                                             !.results = Append(@, [key |-> key,
                                                                    st |-> "pending"])]]

\* A timer that also stops the shared listener.
getRequestTimeoutDisarms(w, key) ==
    [w EXCEPT !.svc = [Finish(@, key, "undefined") EXCEPT !.listening = FALSE]]

\* The timer of a getRequest call (lines 132-138).
getRequestTimeout(w, key) == [w EXCEPT !.svc = Finish(@, key, "undefined")]

\* A listener that takes every request message.
RequestCapturedNever(sv) == FALSE

\* if (State.request) return; of the message listener (lines 80-82).
RequestCaptured(sv) == sv.hasRequest

\* The message listener of getRequest (lines 72-127) on a 'request' message
\* from the opener carrying one port; list is body[1].
SvcOnRequest(w, list, origin, port) ==
    LET sv == w.svc
        captured == [sv EXCEPT !.connectPort = port, !.hasRequest = TRUE,
                               !.matching = FilterMatching(list, origin, <<>>)]
    IN  IF RequestCaptured(sv) THEN w
        ELSE [w EXCEPT !.svc = FinishAll(captured, captured.waiting)]

\* A peer option as a 'request' message lists it.
PeerOption(side, form, having) == [side |-> side, having |-> having, form |-> form]

\* body[1] of the 'request' messages of the model, by name: list A has one
\* option, list B two options and an entry without a side.
RequestList(name) ==
    IF name = "A" THEN <<PeerOption("accepting", "f", NoHaving)>>
    ELSE <<PeerOption("offering", "g", NoHaving), PeerOption("", "f", NoHaving),
           PeerOption("accepting", "g", NotAnObject)>>

\* m.ports[0] of the 'request' messages of the model.
RequestPort(name) == IF name = "A" THEN 1 ELSE 2

\* The message listener of getRequest (lines 72-127) on any window message.
\* m is [fromPopup, origin, body, arg]: fromPopup tells whether m.source is
\* the opener; body is "request" for ['request', list] with one port,
\* "request-noport" and "request-twoports" for it with another number of
\* ports, "request-nolist" for a body[1] that is no array, or something
\* else; arg names the list.  State.connectPort is assigned (line 97)
\* before body[1] is tested.
SvcOnMessage(w, m) ==
    IF RequestCaptured(w.svc) THEN w
    ELSE IF ~m.fromPopup THEN w
    ELSE IF m.body = "request-nolist"
    THEN [w EXCEPT !.svc.connectPort = RequestPort(m.arg)]
    ELSE IF m.body # "request" THEN w
    ELSE SvcOnRequest(w, RequestList(m.arg), m.origin, RequestPort(m.arg))

\* State.opened left as it was.
MarkOpenedNever(w) == w

\* State.opened = 1 (line 208), before the try.
MarkOpened(w) == [w EXCEPT !.svc.opened = TRUE]

\* openRequest (lines 204-264).
openRequest(w, matching) ==
    LET sv == w.svc
        c == toCats(matching)
        sel == ServiceMatch(c.cats, sv.matching)
        cat == c.cats[sel[1]]
        w1 == [MarkOpened(w) EXCEPT !.svc.cats = c.cats, !.ret = "openPromise"]
        w2 == [w1 EXCEPT !.svc.matchingCat = sel[1],
                         !.svc.peer = sv.matching[sel[2]],
                         !.svc.exchangePort = "open", !.svc.statusPort = "open",
                         !.svc.connectOut = Append(@,
                             [tag |-> "connect", side |-> cat.side, form |-> cat.form,
                              having |-> cat.having, ports |-> 2])]
    IN  IF sv.opened THEN [w EXCEPT !.ret = "AlreadyOpened"]
        ELSE IF c.err # ""
        THEN [w1 EXCEPT !.svc.openPromise = Settle(@, Rejected(c.err))]
        ELSE IF sel = <<0, 0>>
        THEN [w1 EXCEPT !.svc.openPromise = Settle(@, NotMatched)]
        ELSE IF sv.connectPort = 0
        THEN [w1 EXCEPT !.svc.openPromise = Settle(@, Rejected("NoConnectPort"))]
        ELSE Connect(w2, 0, cat)

\* statusChannel.port2.onmessage (lines 233-238) on ['done'], and the
\* pagehide listener (lines 239-242).
SvcOnDone(w) == closePorts(ResolveClosing(w, 0))

(* ------------------------- requester page: tasks ----------------------- *)

Init ==
    /\ current = 0
    /\ req = [s \in Sessions |-> NewSession]
    /\ svc = NewService
    /\ call = NoCall

\* new ModalRequest(service) (lines 416-421): the page's sessions are numbered
\* in the order it first calls them.
Constructed(s) == IF s = 1 THEN TRUE ELSE req[s - 1].state # "created"

\* request.open(matching) (lines 445-447).  A session that is not 'created'
\* refuses before it reads matching.
ReqOpen(s, in) ==
    /\ Constructed(s)
    /\ CommitOpen(O(World, s, in), s,
                  IF req[s].state = "created" THEN in.intents ELSE <<>>)

\* request.cancel(rejectWith) (lines 459-461); what x throws reaches the caller.
ReqCancel(s, reason) ==
    LET w == X(World, s, reason)
    IN  /\ Constructed(s)
        /\ CommitCall([w EXCEPT !.threw = "",
                                !.ret = IF w.threw = "" THEN "void" ELSE w.threw],
                      "cancel", s, reason, NoMessage, NoConnect)

\* The popup window is closed (by the user, or by the page in it).
PopupCloses(s) ==
    /\ req[s].popup = "open"
    /\ req' = [req EXCEPT ![s].popup = "closed"]
    /\ call' = [NoCall EXCEPT !.op = "event"]
    /\ UNCHANGED <<current, svc>>

\* The setInterval of lines 617-628, started once the popup was opened, finds
\* popup.closed and calls x (which returns at once on a complete session).
PollClosed(s) ==
    /\ req[s].popup = "closed"
    /\ req[s].state # "complete"
    /\ Commit(X(World, s, NoReason), "pollClosed", s)

\* The proxy window's message listener (lines 720-726) gets message m; the
\* session arms at most n connectChannels.
ReqMessageUpTo(s, m, n) ==
    /\ req[s].listening
    /\ req[s].proxy = "attached"
    /\ m.body = "get-request" /\ Trusted(m, req[s].serviceOrigin)
          => Len(req[s].channels) < n
    /\ CommitCall(onCrossDocumentMessage(World, s, m), "message", s, "", m,
                  NoConnect)

ReqMessage(s, m) == ReqMessageUpTo(s, m, MaxChannels)

\* connectChannel.port2.onmessage (lines 712-718) of channel ch gets message c
\* and dispatches Connect to the proxy window's listener (lines 557-564).
ReqConnect(s, ch, c) ==
    /\ ch \in 1..Len(req[s].channels)
    /\ req[s].proxy = "attached"
    /\ CommitCall(onConnect(World, s, req[s].channels[ch], c), "connect", s, "",
                  NoMessage, c)

\* The using callback of the session's posting offer calls postOffer(data).
UsingPostsOffer(s, data) ==
    /\ req[s].xch.role = "send"
    /\ req[s].cats[req[s].matchedCat].kind = "posting"
    /\ Commit(postOffer(World, s, data), "postOffer", s)

\* The using callback of the session's posting acceptor calls
\* postResult(data); it holds postResult once the offer was delivered.
UsingPostsResult(s, data) ==
    /\ req[s].xch.role = "recv"
    /\ req[s].cats[req[s].matchedCat].kind = "posting"
    /\ ~req[s].xch.waitingForOffer
    /\ Commit(postResult(World, s, data), "postResult", s)

\* The promise the using callback of the session's posting acceptor returned
\* is settled by its code.
UsingSettles(s, outcome) ==
    /\ req[s].xch.role = "recv"
    /\ req[s].xch.callbackPromise = "pending"
    /\ LET w == SetXch(World, s, [req[s].xch EXCEPT !.callbackPromise = outcome.st])
       IN  CommitCall(IF outcome.st = "resolved"
                      THEN Enqueue(w, "callback", s, Undefined, outcome.value)
                      ELSE Enqueue(w, "callbackRejected", s, Str(outcome.err), NoValue),
                      "usingSettles", s, outcome.err, NoMessage, NoConnect)

\* The promise a connecting function returned is settled by its code.
UserSettles(s, outcome) ==
    /\ req[s].xch.role = "user"
    /\ req[s].xch.p.st = "pending"
    /\ Commit(SettleConnect(World, s, outcome), "event", 0)

(* ---------------- the requester page and any popup at all -------------- *)

\* A connecting Intent accepting one form.
ConnectingAcceptor(form) ==
    Intent(TRUE, One(form), Absent, NoHaving, "connecting", Undefined)

\* Not an object: toCats throws MatcherNotAnObject.
NotAnIntent == Intent(FALSE, Absent, Absent, NoHaving, "basic", Undefined)

OpenInput(intents, service, popupBlocked, overlayOk) ==
    [intents |-> intents, service |-> service, popupBlocked |-> popupBlocked,
     overlayOk |-> overlayOk]

\* What open() is given: a request that opens, and one per way of failing.
RequesterInputs ==
    { OpenInput(<<ConnectingAcceptor("f")>>, ServiceUrl, FALSE, TRUE),
      OpenInput(<<NotAnIntent>>, ServiceUrl, FALSE, TRUE),
      OpenInput(<<ConnectingAcceptor("f")>>, "", FALSE, TRUE),
      OpenInput(<<ConnectingAcceptor("f")>>, ServiceUrl, TRUE, TRUE),
      OpenInput(<<ConnectingAcceptor("f")>>, ServiceUrl, FALSE, FALSE) }

CancelReasons == {NoReason, "cancelled"}

WindowMessage(fromPopup, origin, body, arg) ==
    [fromPopup |-> fromPopup, origin |-> origin, body |-> body, arg |-> arg]

\* Messages the popup's page sends the session.
PopupMessages ==
    { WindowMessage(TRUE, SvcOrigin, "get-request", ""),
      WindowMessage(TRUE, SvcOrigin, "close", "") }

ConnectMessage(tag, side, form, having, ports) ==
    [tag |-> tag, side |-> side, form |-> form, having |-> having, ports |-> ports]

\* Connect messages the popup's page sends: one that matches the Cat, one
\* that matches none, one that is malformed.
PopupConnects ==
    { ConnectMessage("connect", "offering", "f", NoHaving, 2),
      ConnectMessage("connect", "offering", "g", NoHaving, 2),
      ConnectMessage("connect", "offering", "f", NoHaving, 1) }

\* How a connecting function's promise settles.
UserOutcomes == {Fulfilled(arrayify(Str("picked"))), Rejected("connectFailed")}

NextRequester ==
    \/ \E s \in Sessions, in \in RequesterInputs : ReqOpen(s, in)
    \/ \E s \in Sessions, reason \in CancelReasons : ReqCancel(s, reason)
    \/ \E s \in Sessions : PopupCloses(s)
    \/ \E s \in Sessions : PollClosed(s)
    \/ \E s \in Sessions, m \in PopupMessages : ReqMessage(s, m)
    \/ \E s \in Sessions, ch \in 1..MaxChannels, c \in PopupConnects : ReqConnect(s, ch, c)
    \/ \E s \in Sessions, outcome \in UserOutcomes : UserSettles(s, outcome)

\* The requester page with its sessions, and a popup that may send anything.
SpecRequester == Init /\ [][NextRequester]_vars

(* --------------------- the popup: the service page --------------------- *)

\* top.opener of the service page: the session whose popup it was loaded in.
Opener == 1

\* The service page is loaded in the open popup.
Loaded == req[Opener].popup = "open" /\ ~svc.unloaded

\* The service page calls ModalService.getRequest().
SvcGetRequest ==
    /\ Loaded
    /\ Len(svc.results) < MaxGetRequestCalls
    /\ Commit(getRequest(World), "getRequest", 0)

\* The setTimeout of a waiting getRequest call fires (lines 132-138).
SvcTimeout(key) ==
    /\ Loaded
    /\ key \in svc.waiting
    /\ Commit(getRequestTimeout(World, key), "event", 0)

\* The service page's message listener gets window message m.
SvcMessage(m) ==
    /\ Loaded
    /\ svc.listening
    /\ CommitCall(SvcOnMessage(World, m), "svcMessage", 0, "", m, NoConnect)

\* The service page calls request.open(matching) on the request it got.
SvcOpen(matching) ==
    /\ Loaded
    /\ \E i \in DOMAIN svc.results : svc.results[i].st = "request"
    /\ Commit(openRequest(World, matching), "svcOpen", 0)

\* The service page calls ModalService.close() (lines 19-24): a close message
\* to the opener, then window.close().
SvcClose ==
    /\ Loaded
    /\ LET w == [World EXCEPT
                    !.svc.toOpener = Append(@, [origin |-> SvcOrigin,
                                                body |-> "close", arg |-> ""]),
                    !.req[Opener].popup = "closed"]
       IN  Commit(w, "close", 0)

\* pagehide of the service page (lines 239-242): the popup was closed.
SvcPageHide ==
    /\ req[Opener].popup = "closed"
    /\ ~svc.unloaded
    /\ LET w == [World EXCEPT !.svc.unloaded = TRUE]
       IN  Commit(IF svc.exchangePort = "unset" THEN w ELSE SvcOnDone(w),
                  "event", 0)

(* ------------------------------ deliveries ----------------------------- *)

\* The message the service page posted to its opener reaches the proxy
\* window's listener.
DeliverToOpener ==
    /\ svc.toOpener # <<>>
    /\ LET m == Head(svc.toOpener)
           w == [World EXCEPT !.svc.toOpener = Tail(@)]
       IN  CommitCall(IF req[Opener].listening /\ req[Opener].proxy = "attached"
                      THEN onCrossDocumentMessage(w, Opener,
                               WindowMessage(TRUE, m.origin, m.body, m.arg))
                      ELSE w, "message", Opener, "",
                      WindowMessage(TRUE, m.origin, m.body, m.arg), NoConnect)

\* The 'request' message the session posted to the popup reaches the service
\* page's listener, if the page has the target origin and still listens.
DeliverToPopup ==
    /\ req[Opener].toPopup # <<>>
    /\ LET m == Head(req[Opener].toPopup)
           w == [World EXCEPT !.req[Opener].toPopup = Tail(@)]
       IN  Commit(IF svc.listening /\ Loaded /\ m.targetOrigin = SvcOrigin
                  THEN SvcOnRequest(w, m.list, ReqOrigin, m.port)
                  ELSE w, "event", 0)

\* The connect message posted on State.connectPort reaches the onmessage of
\* that connectChannel's port2.
DeliverConnect ==
    /\ svc.connectOut # <<>>
    /\ LET c == Head(svc.connectOut)
           ch == svc.connectPort
           w == [World EXCEPT !.svc.connectOut = Tail(@)]
       IN  CommitCall(IF ch \in 1..Len(req[Opener].channels)
                            /\ req[Opener].proxy = "attached"
                      THEN onConnect(w, Opener, req[Opener].channels[ch], c)
                      ELSE w, "connect", Opener, "", NoMessage, c)

\* port.onmessage of whichever of performSend / performRecv runs on a side.
ExchangeOnMessage(w, who, data) ==
    IF XchOf(w, who).role = "recv" THEN RecvOnMessage(w, who, data)
    ELSE IF XchOf(w, who).role = "send" THEN SendOnMessage(w, who, data)
    ELSE w

\* A port that delivers whatever reaches it, closed or not.
PortDeliversWhenClosed(port) == TRUE

\* The owner of an exchange closes its exchange port in the task that fires
\* closing (exchangePort.close(), lines 816-818; closePorts of the service):
\* a port delivers to its onmessage only while it is open.
PortDelivers(port) == port = "open"

\* A message the service posted on exchangeChannel.port2 reaches port1, which
\* the session holds once the connect message arrived.  A port without
\* onmessage keeps its messages, a closed port drops them.
DeliverExchangeToReq ==
    /\ svc.exOut # <<>>
    /\ req[Opener].exchangePort # "unset"
    /\ req[Opener].exchangePort = "open" => req[Opener].xch.onmessage
    /\ LET w == [World EXCEPT !.svc.exOut = Tail(@)]
       IN  Commit(IF PortDelivers(req[Opener].exchangePort)
                  THEN ExchangeOnMessage(w, Opener, Head(svc.exOut))
                  ELSE w, "event", 0)

\* A message the session posted on port1 reaches exchangeChannel.port2.
DeliverExchangeToSvc ==
    /\ req[Opener].exOut # <<>>
    /\ svc.exchangePort = "open" => svc.xch.onmessage
    /\ LET w == [World EXCEPT !.req[Opener].exOut = Tail(@)]
       IN  Commit(IF PortDelivers(svc.exchangePort) /\ ~svc.unloaded
                  THEN ExchangeOnMessage(w, 0, Head(req[Opener].exOut))
                  ELSE w, "event", 0)

\* statusPort.onmessage of the session (lines 775-779): Array.isArray(ev) is
\* false of a MessageEvent, so ['done'] does nothing.
ReqOnDone(w, s) == w

\* ['done'] posted by the service reaches the session's statusPort.
DeliverStatusToReq ==
    /\ svc.stOut # <<>>
    /\ req[Opener].statusPort # "unset"
    /\ LET w == [World EXCEPT !.svc.stOut = Tail(@)]
       IN  Commit(IF req[Opener].statusPort = "open" THEN ReqOnDone(w, Opener)
                  ELSE w, "event", 0)

\* ['done'] posted by the session reaches statusChannel.port2.
DeliverStatusToSvc ==
    /\ req[Opener].stOut # <<>>
    /\ LET w == [World EXCEPT !.req[Opener].stOut = Tail(@)]
       IN  Commit(IF svc.statusPort = "open" /\ ~svc.unloaded THEN SvcOnDone(w)
                  ELSE w, "event", 0)

(* --------------------- the handshake, over all lists ------------------- *)

\* Sequences of 1 to n elements of S.
ListsUpTo(S, n) == UNION {[1..k -> S] : k \in 1..n}

\* A connecting Intent of one form: side is "accepting" or "offering".
ConnectingIntent(side, form, having) ==
    Intent(TRUE, IF side = "accepting" THEN One(form) ELSE Absent,
           IF side = "offering" THEN One(form) ELSE Absent,
           having, "connecting", Undefined)

\* The Intents a requester's list is made of; two of them differ in their
\* having only.
MatchRequesterIntents ==
    { ConnectingIntent("accepting", "f", "h1"),
      ConnectingIntent("accepting", "f", "h2"),
      ConnectingIntent("offering", "f", "h1"),
      ConnectingIntent("accepting", "g", "h1"),
      ConnectingIntent("offering", "g", "h1") }

\* The Intents a service's list is made of.
MatchServiceIntents ==
    { ConnectingIntent(side, form, NoHaving) :
          side \in {"accepting", "offering"}, form \in Forms }

MatchRequesterInputs ==
    { OpenInput(intents, ServiceUrl, FALSE, TRUE) :
          intents \in ListsUpTo(MatchRequesterIntents, MaxIntents) }

MatchServiceInputs == ListsUpTo(MatchServiceIntents, MaxIntents)

\* Each side calls open() once.
NextMatch ==
    \/ /\ req[Opener].state = "created"
       /\ \E in \in MatchRequesterInputs : ReqOpen(Opener, in)
    \/ SvcGetRequest
    \/ DeliverToOpener
    \/ DeliverToPopup
    \/ /\ ~svc.opened
       /\ \E matching \in MatchServiceInputs : SvcOpen(matching)
    \/ DeliverConnect

\* One session and the service in its popup, from open() to the connect
\* message, over every list of Intents on either side.
SpecMatch == Init /\ [][NextMatch]_vars

(* --------------------- the exchange, end to end ------------------------ *)

\* BasicAcceptor (common.ts 87-109): replying is a literal, Undefined when
\* the Intent has none.
BasicAcceptor(form, replying) ==
    Intent(TRUE, One(form), Absent, NoHaving, "basic", replying)

\* BasicOffer (common.ts 171-190): sending is a literal.
BasicOffer(form, sending) ==
    Intent(TRUE, Absent, One(form), NoHaving, "basic", sending)

\* The literals offered: a string, an array, null.
Values == {Str("hello"), Arr(<<"a", "b">>), Null}

\* The literals replied: none, or a string.
Replies == {Undefined, Str("ok")}

\* What the session's open() is given.
ExchangeRequesterInputs ==
    { OpenInput(<<intent>>, ServiceUrl, FALSE, TRUE) :
          intent \in {BasicAcceptor("f", r) : r \in Replies}
                        \cup {BasicOffer("f", Str("hello")), NotAnIntent} }

\* What the service's request.open() is given.
ExchangeServiceInputs ==
    { <<intent>> :
          intent \in {BasicOffer("f", v) : v \in Values}
                        \cup {BasicAcceptor("f", r) : r \in Replies}
                        \cup {BasicOffer("g", Str("hello")), NotAnIntent} }

Next ==
    \/ \E in \in ExchangeRequesterInputs : ReqOpen(Opener, in)
    \/ \E reason \in CancelReasons : ReqCancel(Opener, reason)
    \/ PopupCloses(Opener)
    \/ PollClosed(Opener)
    \/ SvcGetRequest
    \/ \E key \in 1..MaxGetRequestCalls : SvcTimeout(key)
    \/ \E matching \in ExchangeServiceInputs : SvcOpen(matching)
    \/ SvcClose
    \/ SvcPageHide
    \/ DeliverToOpener
    \/ DeliverToPopup
    \/ DeliverConnect
    \/ DeliverExchangeToReq
    \/ DeliverExchangeToSvc
    \/ DeliverStatusToReq
    \/ DeliverStatusToSvc

\* One session and the service in its popup, with basic Intents, cancellation
\* and the popup closing at any time.
Spec == Init /\ [][Next]_vars

(* ------------- the exchange when nobody cancels or closes -------------- *)

\* The session opens with a basic acceptor of form f.
FairReqOpen ==
    /\ req[Opener].state = "created"
    /\ \E r \in Replies :
          ReqOpen(Opener, OpenInput(<<BasicAcceptor("f", r)>>, ServiceUrl, FALSE, TRUE))

\* The service opens the request with a basic offer of form f.
FairSvcOpen ==
    /\ ~svc.opened
    /\ \E v \in Values : SvcOpen(<<BasicOffer("f", v)>>)

NextFair ==
    \/ FairReqOpen
    \/ SvcGetRequest
    \/ FairSvcOpen
    \/ DeliverToOpener
    \/ DeliverToPopup
    \/ DeliverConnect
    \/ DeliverExchangeToReq
    \/ DeliverExchangeToSvc
    \/ DeliverStatusToReq
    \/ DeliverStatusToSvc

\* Both pages run their script, and every message posted is delivered.
Fairness ==
    /\ WF_vars(FairReqOpen)
    /\ WF_vars(SvcGetRequest)
    /\ WF_vars(FairSvcOpen)
    /\ WF_vars(DeliverToOpener)
    /\ WF_vars(DeliverToPopup)
    /\ WF_vars(DeliverConnect)
    /\ WF_vars(DeliverExchangeToReq)
    /\ WF_vars(DeliverExchangeToSvc)
    /\ WF_vars(DeliverStatusToReq)
    /\ WF_vars(DeliverStatusToSvc)

\* A basic acceptor meets a basic offer of the same form; no cancel(), no
\* popup closed, no timeout.
FairSpec == Init /\ [][NextFair]_vars /\ Fairness

(* ------------------ one session and any popup at all ------------------- *)

\* PostingOffer (common.ts 152-160) of one form.
PostingOffer(form) == Intent(TRUE, Absent, One(form), NoHaving, "posting", Undefined)

\* PostingAcceptor (common.ts 130-141) of one form.
PostingAcceptor(form) ==
    Intent(TRUE, One(form), Absent, NoHaving, "posting", Undefined)

\* The connectChannels one session arms (one per get-request it accepts).
MaxSessionChannels == 2

\* An origin the session is told to trust by a change-origin message.
MovedOrigin == "https://moved.example"

\* What open() is given: the requests of RequesterInputs, and a basic
\* acceptor, a basic offer, a posting offer and a posting acceptor.
SessionInputs ==
    RequesterInputs
        \cup { OpenInput(<<BasicAcceptor("f", Str("ok"))>>, ServiceUrl, FALSE, TRUE),
               OpenInput(<<BasicOffer("f", Str("hello"))>>, ServiceUrl, FALSE, TRUE),
               OpenInput(<<PostingOffer("f")>>, ServiceUrl, FALSE, TRUE),
               OpenInput(<<PostingAcceptor("f")>>, ServiceUrl, FALSE, TRUE) }

\* Window messages the proxy window's listener may get: from the popup or
\* from another window, from the service's origin, from the origin it moved
\* to, or from another one.
SessionMessages ==
    { WindowMessage(fromPopup, origin, body, "") :
          fromPopup \in BOOLEAN, origin \in {SvcOrigin, MovedOrigin, EvilOrigin},
          body \in {"get-request", "close"} }
        \cup { WindowMessage(TRUE, SvcOrigin, "change-origin", MovedOrigin),
               WindowMessage(TRUE, EvilOrigin, "change-origin", EvilOrigin),
               WindowMessage(FALSE, SvcOrigin, "change-origin", EvilOrigin),
               WindowMessage(TRUE, SvcOrigin, "change-origin", ""),
               WindowMessage(TRUE, SvcOrigin, "bogus", ""),
               WindowMessage(TRUE, SvcOrigin, "notarray", "") }

\* Connect messages a connectChannel may carry: for either side and form, and
\* one per way of being malformed.
SessionConnects ==
    { ConnectMessage("connect", side, form, NoHaving, 2) :
          side \in {"accepting", "offering"}, form \in Forms }
        \cup { ConnectMessage("connect", "offering", "f", NoHaving, 1),
               ConnectMessage("bogus", "offering", "f", NoHaving, 2),
               ConnectMessage("connect", "", "f", NoHaving, 2),
               ConnectMessage("connect", "offering", NotAString, NoHaving, 2),
               ConnectMessage("connect", "offering", "f", NotAnObject, 2) }

\* The popup's page posts data on the exchange port it was given; the
\* session's port.onmessage runs.
ReqExchangeMessage(s, data) ==
    /\ req[s].exchangePort = "open"
    /\ req[s].xch.onmessage
    /\ Commit(ExchangeOnMessage(World, s, data), "exchange", s)

NextSession ==
    \/ \E in \in SessionInputs : ReqOpen(Opener, in)
    \/ \E reason \in CancelReasons : ReqCancel(Opener, reason)
    \/ PopupCloses(Opener)
    \/ PollClosed(Opener)
    \/ \E m \in SessionMessages : ReqMessageUpTo(Opener, m, MaxSessionChannels)
    \/ \E ch \in 1..MaxSessionChannels, c \in SessionConnects :
          ReqConnect(Opener, ch, c)
    \/ \E outcome \in UserOutcomes : UserSettles(Opener, outcome)
    \/ \E data \in Values : ReqExchangeMessage(Opener, data)
    \/ UsingPostsOffer(Opener, Str("hello"))
    \/ UsingPostsResult(Opener, Str("ok"))
    \/ \E outcome \in UserOutcomes : UsingSettles(Opener, outcome)

\* One session of the requester page, and a popup and other windows that may
\* send it anything at any time.
SpecSession == Init /\ [][NextSession]_vars

(* ---------------- the service page and any opener at all ---------------- *)

\* Window messages the service page's listener may get, from its opener or
\* from another window.
ServiceMessages ==
    { WindowMessage(fromOpener, ReqOrigin, "request", name) :
          fromOpener \in BOOLEAN, name \in {"A", "B"} }
        \cup { WindowMessage(TRUE, ReqOrigin, body, "B") :
                 body \in {"request-noport", "request-twoports", "request-nolist",
                           "bogus", "notarray"} }

NextService ==
    \/ /\ req[Opener].state = "created"
       /\ ReqOpen(Opener, OpenInput(<<ConnectingAcceptor("f")>>, ServiceUrl,
                                    FALSE, TRUE))
    \/ SvcGetRequest
    \/ \E key \in 1..MaxGetRequestCalls : SvcTimeout(key)
    \/ \E m \in ServiceMessages : SvcMessage(m)

\* The service page, calling getRequest several times, and an opener and
\* other windows that may send it anything at any time.
SpecService == Init /\ [][NextService]_vars

(* --------------------------- toCats, over lists ------------------------ *)

\* The Intents the lists given to toCats are made of: of one form, of
\* several forms in an array, of an empty array, and one per way of being
\* malformed.
CatIntents ==
    { Intent(TRUE, One("f"), Absent, NoHaving, "connecting", Undefined),
      Intent(TRUE, Many(<<"f", "g">>), Absent, "h1", "connecting", Undefined),
      Intent(TRUE, Absent, One("g"), NoHaving, "connecting", Undefined),
      Intent(TRUE, Absent, Many(<<"g", "f">>), "h2", "connecting", Undefined),
      Intent(TRUE, Many(<<>>), Absent, NoHaving, "connecting", Undefined),
      NotAnIntent,
      Intent(TRUE, Absent, Absent, NoHaving, "connecting", Undefined),
      Intent(TRUE, One("f"), One("g"), NoHaving, "connecting", Undefined),
      Intent(TRUE, One(NotAString), Absent, NoHaving, "connecting", Undefined),
      Intent(TRUE, Absent, Many(<<"f", NotAString>>), NoHaving, "connecting",
             Undefined) }

CatInputs ==
    { OpenInput(intents, ServiceUrl, FALSE, TRUE) :
          intents \in ListsUpTo(CatIntents, MaxIntents) }

NextCats ==
    /\ req[Opener].state = "created"
    /\ \E in \in CatInputs : ReqOpen(Opener, in)

\* open() on every list of Intents: what toCats makes of the list.
SpecCats == Init /\ [][NextCats]_vars

(* ------------------------- claims: the matcher ------------------------- *)

\* An (own Cat, peer option) pair is eligible: opposite sides, equal forms.
Eligible(cat, option) == cat.side # option.side /\ cat.form = option.form

\* The greatest element of a non-empty set of numbers.
Last(S) == CHOOSE k \in S : \A k2 \in S : k2 <= k

\* The peer options eligible for the service's i-th Cat.
OptionsFor(i) == {j \in DOMAIN svc.matching : Eligible(svc.cats[i], svc.matching[j])}

\* C1: once the service has called request.open with well-formed Intents,
\* its promise is resolved {matched: null} exactly when no (own Cat, peer
\* option) pair has opposite sides and the same form.
C1_NotMatchedIffNoEligiblePair ==
    svc.opened =>
        ((svc.openPromise = NotMatched)
            <=> (\A i \in DOMAIN svc.cats : OptionsFor(i) = {}))

\* C1 witness: both lists have two entries, none eligible, and open resolved
\* {matched: null}.
C1_Witness ==
    /\ svc.opened /\ svc.openPromise = NotMatched
    /\ Len(svc.cats) = 2 /\ Len(svc.matching) = 2
    /\ svc.cats[1].form = svc.matching[2].form

\* C2: when pairings are eligible the service selects the last-declared own
\* Cat that has an eligible peer option and, for it, the last-declared
\* eligible peer option; the requester, given the one selection, selects the
\* last-declared own Cat eligible for it.
C2_LastEligibleWins ==
    /\ svc.matchingCat # 0 =>
          LET i == Last({k \in DOMAIN svc.cats : OptionsFor(k) # {}})
          IN  /\ svc.matchingCat = i
              /\ svc.peer = svc.matching[Last(OptionsFor(i))]
    /\ req[Opener].matchedCat # 0 =>
          req[Opener].matchedCat =
              Last({k \in DOMAIN req[Opener].cats :
                       Eligible(req[Opener].cats[k], req[Opener].peer)})

\* C2 witness: own Cats X, Y both eligible for peer options P1 and P2 that
\* differ; (Y, P2) is selected.
C2_Witness ==
    /\ svc.matchingCat = 2 /\ Len(svc.matching) = 2
    /\ OptionsFor(1) = {1, 2} /\ OptionsFor(2) = {1, 2}
    /\ svc.matching[1] # svc.matching[2]
    /\ svc.peer = svc.matching[2]

\* C3: once the connect message of the service's selection (Cat s, peer
\* option p) has been handled by the requester, the requester has not failed
\* with NoMatchingConnector and its matchedCat is the Cat p was derived from.
C3_MatchersAgree ==
    (svc.matchingCat # 0 /\ svc.connectOut = <<>>) =>
        /\ req[Opener].openPromise.err # "NoMatchingConnector"
        /\ req[Opener].exchangePort = "open"
        /\ Len(svc.matching) = Len(req[Opener].cats)
        /\ req[Opener].matchedCat = ServiceMatch(svc.cats, svc.matching)[2]

\* C3 witness: the requester has two Cats eligible for the selection and a
\* third that is not, and took the second.
C3_Witness ==
    /\ svc.matchingCat # 0 /\ svc.connectOut = <<>>
    /\ Len(req[Opener].cats) >= 2
    /\ req[Opener].matchedCat = 2
    /\ Eligible(req[Opener].cats[1], req[Opener].peer)
    /\ req[Opener].cats[1] # req[Opener].cats[2]

(* ------------------------- claims: the exchange ------------------------ *)

\* The DataArray normalization of a value: null and undefined give the empty
\* array, an array gives itself, anything else the array of it alone; raw is
\* the value.
DataArray(v) ==
    [arr |-> CASE v.t \in {"null", "undefined"} -> <<>>
               [] v.t = "array" -> v.a
               [] OTHER -> <<v.s>>,
     raw |-> v]

\* Both opens have resolved {matched: peer, value}.
BothMatched ==
    /\ req[Opener].openPromise.st = "resolved"
    /\ req[Opener].openPromise.matched # NoPeer
    /\ svc.openPromise.st = "resolved"
    /\ svc.openPromise.matched # NoPeer

\* C4: a requester with a basic acceptor of a form and a service with a basic
\* offer of that form and the literal v, nobody cancelling and every message
\* delivered: eventually both opens have resolved Matched, for good, and the
\* acceptor's value is the DataArray of v.
C4_ExchangeCompletes ==
    <>[](/\ BothMatched
         /\ req[Opener].openPromise.value =
                DataArray(svc.cats[svc.matchingCat].data))

\* C4 witness: both opens resolved Matched and the acceptor got ["hello"].
C4_Witness ==
    /\ BothMatched
    /\ svc.cats[svc.matchingCat].data = Str("hello")
    /\ req[Opener].openPromise.value.arr = <<"hello">>
    /\ req[Opener].openPromise.value.raw = Str("hello")

\* The closure of performSend / performRecv on a side: 0 is the service.
SideXch(who) == IF who = 0 THEN svc.xch ELSE req[Opener].xch

\* What the basic acceptor facing side who posts as its result: its replying.
AcceptorReply(who) ==
    IF who = 0 THEN req[Opener].cats[req[Opener].matchedCat].data
    ELSE svc.cats[svc.matchingCat].data

\* C5: on either side, an offering role that resolved because the reply
\* arrived has the DataArray of what the accepting peer posted as its value,
\* and the empty DataArray when that peer is a basic acceptor without
\* replying.
C5_OfferValueIsReply ==
    \A who \in {0, Opener} :
        (SideXch(who).role = "send" /\ SideXch(who).via = "reply") =>
            /\ SideXch(who).p.st = "resolved"
            /\ SideXch(who).p.value = DataArray(AcceptorReply(who))
            /\ AcceptorReply(who) = Undefined => SideXch(who).p.value.arr = <<>>

\* C5 witness: the service offered, the requester's acceptor replied "ok",
\* and the service's offer resolved with ["ok"].
C5_Witness ==
    /\ svc.xch.role = "send" /\ svc.xch.via = "reply"
    /\ svc.xch.p.value.arr = <<"ok">>
    /\ svc.openPromise.value.arr = <<"ok">>

\* The session's ports are released / held.
ReqPortsClosed ==
    req[Opener].exchangePort = "closed" /\ req[Opener].statusPort = "closed"

ReqPortsOpen ==
    req[Opener].exchangePort = "open" /\ req[Opener].statusPort = "open"

\* The service's ports are released.
SvcPortsClosed == svc.exchangePort = "closed" /\ svc.statusPort = "closed"

\* Nothing is left to happen by itself: no message is in flight and the
\* popup is open, so the timer that polls popup.closed has nothing to report.
NothingPending ==
    /\ svc.toOpener = <<>> /\ svc.connectOut = <<>>
    /\ svc.exOut = <<>> /\ svc.stOut = <<>>
    /\ req[Opener].toPopup = <<>>
    /\ req[Opener].exOut = <<>> /\ req[Opener].stOut = <<>>
    /\ req[Opener].popup = "open"

\* C6 as stated: after both opens have resolved Matched, the session reaches
\* complete and both sides release their ports with no cancel() and no
\* popup-closed notification; so when nothing is left to happen by itself,
\* they have.
C6_BothReachComplete ==
    (BothMatched /\ NothingPending) =>
        (req[Opener].state = "complete" /\ ReqPortsClosed /\ SvcPortsClosed)

\* C6 amended: once both opens have resolved Matched the service has released
\* its ports; the session stays open, holding its ports, until cancel() is
\* called, a close message arrives or the popup is found closed, and is then
\* complete with its ports released.
C6_CompleteOnlyOnClose ==
    /\ [](BothMatched =>
            /\ SvcPortsClosed
            /\ req[Opener].state \in {"open", "complete"}
            /\ req[Opener].state = "open" => ReqPortsOpen
            /\ req[Opener].state = "complete" => ReqPortsClosed)
    /\ [][(req[Opener].state = "open" /\ req'[Opener].state = "complete"
              /\ req'[Opener].openPromise.matched # NoPeer)
            => call'.op \in {"cancel", "message", "pollClosed"}]_vars

\* C6 witness: both opens resolved Matched, the session still open; and the
\* session completed by cancel() afterwards.
C6_Witness ==
    /\ BothMatched
    /\ req[Opener].state = "complete" /\ ReqPortsClosed /\ SvcPortsClosed
    /\ call.op = "cancel"

(* ------------------------ claims: open() and sessions ------------------ *)

\* The sessions in state 'open'.
OpenSessions == {s \in Sessions : req[s].state = "open"}

\* C7: at most one session is in state 'open', and ModalRequest.current is
\* unset or is that session, whatever open() and cancel() calls were made,
\* failing opens included.
C7_AtMostOneOpen ==
    /\ Cardinality(OpenSessions) <= 1
    /\ current # 0 => current \in OpenSessions

\* C8: an open() on a created session while another session is in state
\* 'open' leaves that other session complete, its closing promise resolved
\* and, if it had accepted no connect, its open promise resolved
\* {matched: null}.
C8_OpenCancelsPrevious ==
    [][\A s, p \in Sessions :
          (call'.op = "open" /\ call'.s = s /\ req[s].state = "created"
              /\ p # s /\ req[p].state = "open")
          => /\ req'[p].state = "complete"
             /\ req'[p].closingPromise
             /\ req[p].exchangePort = "unset" => req'[p].openPromise = NotMatched]_vars

\* C9: open() on a session that is not in state 'created' returns a promise
\* rejected with AlreadyOpened and changes nothing: not the session's state,
\* Cats, ports or open promise, nor anything else.
C9_SecondOpenRejected ==
    [][(call'.op = "open" /\ req[Opener].state # "created")
          => /\ call'.ret = "AlreadyOpened"
             /\ req' = req /\ current' = current /\ svc' = svc]_vars

\* C9 witness: open() was called again on a session that is open and whose
\* first open() has resolved Matched, and was rejected.
C9_Witness ==
    /\ call = [NoCall EXCEPT !.op = "open", !.s = Opener, !.ret = "AlreadyOpened"]
    /\ req[Opener].state = "open"
    /\ req[Opener].openPromise.matched # NoPeer

\* C10: the service's request.open() marks the request opened whatever its
\* outcome, and a call on an opened request is rejected with AlreadyOpened
\* and changes nothing: no connect message is sent.
C10_ServiceOpenSingleShot ==
    [][call'.op = "svcOpen"
          => /\ svc'.opened
             /\ svc.opened => /\ call'.ret = "AlreadyOpened"
                              /\ svc' = svc /\ req' = req]_vars

\* C10 witness: the first request.open() was rejected for a malformed Intent
\* and the next call was rejected with AlreadyOpened.
C10_Witness ==
    /\ call = [NoCall EXCEPT !.op = "svcOpen", !.ret = "AlreadyOpened"]
    /\ svc.openPromise = Rejected("MatcherNotAnObject")
    /\ svc.connectOut = <<>> /\ svc.exchangePort = "unset"

(* --------------------- claims: cancel and completion ------------------- *)

\* The task just run completed the session the way a user or the popup does:
\* cancel() without a reason, a 'close' message, or the popup found closed.
CompletedQuietly ==
    /\ req[Opener].state = "open"
    /\ req'[Opener].state = "complete"
    /\ \/ call'.op = "cancel" /\ call'.s = Opener /\ call'.arg = NoReason
       \/ call'.op = "pollClosed" /\ call'.s = Opener
       \/ call'.op = "message" /\ call'.s = Opener /\ call'.msg.body = "close"

\* C11: a session completed by cancel() without a reason, by a 'close'
\* message or by the popup being found closed, before any connect message was
\* accepted, has its open() resolved NotMatched, never rejected.
C11_QuietCompletionIsNotMatched ==
    [][(CompletedQuietly /\ req[Opener].exchangePort = "unset")
          => req'[Opener].openPromise = NotMatched]_vars

\* C12: cancel(), with or without a reason, on a session that is already
\* complete changes no state of any session or of the service, posts nothing
\* (the queues of posted messages are part of that state), fires no signal,
\* throws nothing, and leaves the outcome of open() as it was.
C12_CancelPastCompleteIsNoOp ==
    [][(call'.op = "cancel" /\ req[Opener].state = "complete")
          => /\ req' = req /\ current' = current /\ svc' = svc
             /\ call'.ret = "void"]_vars

\* cancel("cancelled") was the last call, on a session that an earlier x()
\* had completed with a connect still in progress: open() is still pending.
C12_Witness ==
    /\ call.op = "cancel" /\ call.arg = "cancelled" /\ call.ret = "void"
    /\ req[Opener].state = "complete"
    /\ req[Opener].exchangePort = "closed"
    /\ req[Opener].openPromise = Pending

\* cancel(reason), with a reason, was just called on the open session.
CancelledWithReason ==
    /\ call'.op = "cancel" /\ call'.s = Opener /\ call'.arg # NoReason
    /\ req[Opener].state = "open"

\* C13 as stated: cancel(reason) makes the outcome of open() a failure
\* carrying that reason whatever the exchange state, the matched Cat's
\* connect having already resolved included (sessions whose open() had
\* already failed are left out).
C13_ReasonAlwaysRejects ==
    [][(CancelledWithReason /\ req[Opener].openPromise.st # "rejected")
          => req'[Opener].openPromise = Rejected(call'.arg)]_vars

\* C13: cancel(reason) on an open session rejects open() with that reason if
\* open() has not settled yet, whether no connect was received or a connect is
\* in progress; an outcome already settled (Matched once the connect has
\* resolved, or a failure) is left as it is.
C13_ReasonRejectsPendingOpen ==
    [][CancelledWithReason
          => /\ req'[Opener].state = "complete"
             /\ req'[Opener].openPromise =
                   IF req[Opener].openPromise.st = "pending"
                   THEN Rejected(call'.arg) ELSE req[Opener].openPromise]_vars

\* cancel("cancelled") has rejected open() while the matched Cat's connect
\* was in progress.
C13_Witness ==
    /\ call.op = "cancel" /\ call.arg = "cancelled"
    /\ req[Opener].openPromise = Rejected("cancelled")
    /\ req[Opener].exchangePort = "closed"
    /\ req[Opener].xch.role = "user"
    /\ req[Opener].xch.p = Pending

\* A connect message was accepted and open() has not settled.
ConnectInProgress ==
    /\ req[Opener].exchangePort # "unset"
    /\ req[Opener].openPromise = Pending

\* The connect promise is the promise of the caller's code: of a connecting
\* function, of a using callback that has not called postOffer, or of a
\* using callback that was given the offer and has not settled.
LeftToCallerCode ==
    \/ req[Opener].xch.role = "user"
    \/ req[Opener].xch.role = "send" /\ ~req[Opener].xch.offerPosted
    \/ req[Opener].xch.role = "recv" /\ req[Opener].xch.callbackPromise = "pending"

ServiceFoundNoPair ==
    /\ svc.opened
    /\ svc.cats # <<>>
    /\ \A i \in DOMAIN svc.cats : OptionsFor(i) = {}

\* C15: when no own Cat pairs with any captured peer option, request.open()
\* on the service side is resolved NotMatched and not rejected, no exchange
\* or status channel exists, and no connect message is sent: none is in
\* flight, and the requester has accepted none.
C15_FailedMatchIsQuiet ==
    ServiceFoundNoPair
        => /\ svc.openPromise = NotMatched
           /\ svc.exchangePort = "unset" /\ svc.statusPort = "unset"
           /\ svc.xch = NoXch
           /\ svc.connectOut = <<>>
           /\ req[Opener].exchangePort = "unset"
           /\ req[Opener].xch = NoXch

\* The service opened with two Cats against two captured options of the
\* same forms and sides, and every delivery has been made.
C15_Witness ==
    /\ ServiceFoundNoPair
    /\ Len(svc.cats) = 2 /\ Len(svc.matching) = 2
    /\ svc.cats[1].form # svc.cats[2].form
    /\ svc.cats[2].form = svc.matching[1].form
    /\ svc.openPromise = NotMatched
    /\ svc.toOpener = <<>> /\ req[Opener].toPopup = <<>>

(* -------------------- claims: the connect message --------------------- *)

\* A connect message that is not ['connect', side, form, having] with a side,
\* a string form, an object having and two ports.
Malformed(c) ==
    \/ c.tag # "connect"
    \/ c.ports # 2
    \/ c.side \notin {"accepting", "offering"}
    \/ c.form = NotAString
    \/ c.having = NotAnObject

\* No Cat of the session pairs with the connect message.
MatchesNone(c) == \A i \in DOMAIN req[Opener].cats : ~Eligible(req[Opener].cats[i], c)

\* The session's connect listener has just got message call'.c, no connect
\* message having been accepted before.
FirstConnect ==
    /\ call'.op = "connect" /\ call'.s = Opener
    /\ req[Opener].state = "open"
    /\ req[Opener].exchangePort = "unset"

\* C16: a connect message that is malformed, or that matches none of the
\* session's Cats, rejects open() with InvalidConnectMessage, respectively
\* NoMatchingConnector, invokes no Cat's connect (no exchange is set up), and
\* leaves the session complete with its closing signal fired.
C16_BadConnectFailsOpen ==
    [][(FirstConnect /\ (Malformed(call'.c) \/ MatchesNone(call'.c)))
          => /\ req'[Opener].openPromise =
                   Rejected(IF Malformed(call'.c) THEN "InvalidConnectMessage"
                            ELSE "NoMatchingConnector")
             /\ req'[Opener].xch = NoXch
             /\ req'[Opener].exchangePort = "unset"
             /\ req'[Opener].matchedCat = 0
             /\ req'[Opener].state = "complete"
             /\ req'[Opener].closingPromise]_vars

\* A well-formed connect message for a form the session has no Cat of has
\* just failed open().
C16_Witness ==
    /\ call.op = "connect" /\ ~Malformed(call.c) /\ call.c.form = "g"
    /\ req[Opener].cats # <<>>
    /\ req[Opener].openPromise = Rejected("NoMatchingConnector")
    /\ req[Opener].state = "complete"

\* C17: over any sequence of get-request and connect messages the session
\* calls a Cat's connect at most once: a connect message received once one
\* was accepted throws AlreadyConnected, which fails the session (open() is
\* rejected with it unless already settled), and starts no second exchange:
\* the matched Cat, the peer and the ports stay those of the first.
C17_ConnectAtMostOnce ==
    [][/\ req'[Opener].connectCalls <= 1
       /\ (/\ call'.op = "connect" /\ call'.s = Opener
           /\ req[Opener].state = "open"
           /\ req[Opener].exchangePort # "unset")
          => /\ req'[Opener].connectCalls = req[Opener].connectCalls
             /\ req'[Opener].matchedCat = req[Opener].matchedCat
             /\ req'[Opener].peer = req[Opener].peer
             /\ req'[Opener].xch.role = req[Opener].xch.role
             /\ req'[Opener].state = "complete"
             /\ req'[Opener].openPromise =
                   IF req[Opener].openPromise.st = "pending"
                   THEN Rejected("AlreadyConnected")
                   ELSE req[Opener].openPromise]_vars

\* Two get-request messages were accepted, a connect message was accepted,
\* and a second well-formed connect message has just failed the session.
C17_Witness ==
    /\ call.op = "connect" /\ ~Malformed(call.c)
    /\ Len(req[Opener].channels) = 2
    /\ req[Opener].connectCalls = 1
    /\ req[Opener].exchangePort = "closed"
    /\ req[Opener].openPromise = Rejected("AlreadyConnected")

(* ----------------------- claims: the origin check ---------------------- *)

\* The proxy window's listener has just got a get-request or a change-origin
\* message, call'.msg, while the session was listening.
HandshakeMessage ==
    /\ call'.op = "message" /\ call'.s = Opener
    /\ call'.msg.body \in {"get-request", "change-origin"}

\* The message comes from the popup and from the origin the session trusts
\* as it receives it.
FromTrustedOrigin ==
    call'.msg.fromPopup /\ call'.msg.origin = req[Opener].serviceOrigin

\* C18: a get-request or change-origin message is acted on only if it comes
\* from the popup and its origin is the session's trusted origin at receipt.
\* From anywhere else it changes no state and posts nothing (the queues of
\* posted messages are part of the state).  An accepted get-request posts
\* the capability list to the sender's origin; an accepted change-origin
\* carrying a string makes that string the trusted origin, so that the
\* previous one is no longer trusted.
C18_OriginCheck ==
    [][HandshakeMessage
          => IF ~FromTrustedOrigin
             THEN req' = req /\ current' = current /\ svc' = svc
             ELSE IF call'.msg.body = "get-request"
             THEN /\ req'[Opener].serviceOrigin = req[Opener].serviceOrigin
                  /\ Len(req'[Opener].toPopup) = Len(req[Opener].toPopup) + 1
                  /\ req'[Opener].toPopup[Len(req'[Opener].toPopup)].targetOrigin
                        = call'.msg.origin
             ELSE /\ req'[Opener].toPopup = req[Opener].toPopup
                  /\ call'.msg.arg # ""
                        => /\ req'[Opener].serviceOrigin = call'.msg.arg
                           /\ req'[Opener].state = req[Opener].state]_vars

\* The session trusts the origin a change-origin message gave it, and a
\* get-request from the popup at the previous origin has just been ignored.
C18_Witness ==
    /\ call.op = "message" /\ call.msg.body = "get-request"
    /\ call.msg.fromPopup /\ call.msg.origin = SvcOrigin
    /\ req[Opener].serviceOrigin = MovedOrigin
    /\ req[Opener].state = "open" /\ req[Opener].listening
    /\ req[Opener].toPopup = <<>>

(* ------------------------ claims: the offering role -------------------- *)

\* C19: the offer is posted on the exchange port exactly once.  The first
\* call of postOffer posts one message (none on a port already closed) and
\* returns a promise; every later call on the same exchange returns a promise
\* rejected with OfferAlreadyPosted and posts nothing.
C19_OfferPostedOnce ==
    [][(call'.op = "postOffer" /\ call'.s = Opener)
          => IF req[Opener].xch.offerPosted
             THEN /\ call'.ret = "OfferAlreadyPosted"
                  /\ req'[Opener].exOut = req[Opener].exOut
                  /\ req'[Opener].xch.offerPosted
             ELSE /\ call'.ret = "offerPromise"
                  /\ req'[Opener].xch.offerPosted
                  /\ req'[Opener].exOut =
                        IF req[Opener].exchangePort = "open"
                        THEN Append(req[Opener].exOut, Str("hello"))
                        ELSE req[Opener].exOut]_vars

\* The using callback has called postOffer a second time while the port was
\* open: the call was rejected and the port carries the one offer.
C19_Witness ==
    /\ call.op = "postOffer" /\ call.ret = "OfferAlreadyPosted"
    /\ req[Opener].exchangePort = "open"
    /\ req[Opener].xch.offerPosted
    /\ req[Opener].exOut = <<Str("hello")>>

\* The closing promise a side's connect was given.
Closing(who) == IF who = 0 THEN svc.closingPromise ELSE req[Opener].closingPromise

\* C20: the closing race of the offering role, on either side.  The offer
\* promise never rejects.  If the closing signal fires while the offer is
\* posted and no reply has come, the promise resolves with the empty
\* DataArray; once it has resolved, by the closing signal or by a reply,
\* nothing changes its value: not a reply coming after the closing signal,
\* not the closing signal coming after the reply.
C20_OfferClosingRace ==
    [][\A who \in {0, Opener} :
          SideXch(who).role = "send"
             => /\ SideXch(who)'.p.st # "rejected"
                /\ SideXch(who).p.st = "resolved"
                      => /\ SideXch(who)'.p = SideXch(who).p
                         /\ SideXch(who)'.via = SideXch(who).via
                /\ (/\ SideXch(who).p = Pending
                    /\ SideXch(who).offerPosted
                    /\ ~Closing(who) /\ Closing(who)')
                      => /\ SideXch(who)'.via = "closing"
                         /\ SideXch(who)'.p = Fulfilled(DataArray(Undefined))]_vars

\* cancel() fired the closing signal while the session's offer was posted
\* and unanswered: the offer promise resolved with the empty DataArray and
\* open() with it.
C20_Witness ==
    /\ req[Opener].xch.role = "send"
    /\ req[Opener].xch.via = "closing"
    /\ req[Opener].xch.p = Fulfilled(DataArray(Undefined))
    /\ req[Opener].exOut # <<>>
    /\ req[Opener].closingPromise
    /\ req[Opener].openPromise = Matched(req[Opener].peer, DataArray(Undefined))

(* ----------------------- claims: the accepting role ------------------- *)

\* The session's accepting exchange: performRecv is running for it.
Accepting == req[Opener].xch.role = "recv"

\* C21: in the accepting role at most one result is posted per exchange.
\* The first postResult call posts its data (nothing on a port already
\* closed) and returns postResultPromise; every later call returns a promise
\* rejected with ResultAlreadyPosted and posts nothing; the automatic post
\* happens only when no result was posted.  Once a result was posted the only
\* message the role still posts is the null with which port.onmessage
\* answers the acknowledgment.
C21_ResultPostedOnce ==
    [][Accepting
          => /\ (call'.op = "postResult" /\ call'.s = Opener)
                   => IF ~req[Opener].xch.waitingForResult
                      THEN /\ call'.ret = "ResultAlreadyPosted"
                           /\ req'[Opener].exOut = req[Opener].exOut
                      ELSE /\ call'.ret = "postResultPromise"
                           /\ ~req'[Opener].xch.waitingForResult
                           /\ req'[Opener].exOut =
                                 IF req[Opener].exchangePort = "open"
                                 THEN Append(req[Opener].exOut, Str("ok"))
                                 ELSE req[Opener].exOut
             /\ ~req[Opener].xch.waitingForResult
                   => /\ ~req'[Opener].xch.waitingForResult
                      /\ \/ req'[Opener].exOut = req[Opener].exOut
                         \/ /\ req[Opener].xch.waitingForAck
                            /\ ~req'[Opener].xch.waitingForAck
                            /\ call'.op = "exchange"
                            /\ req'[Opener].exOut = Append(req[Opener].exOut, Null)
             /\ (req[Opener].xch.waitingForResult
                   /\ ~req'[Opener].xch.waitingForResult)
                   => Len(req'[Opener].exOut) <= Len(req[Opener].exOut) + 1]_vars

\* The using callback has called postResult a second time on an open port:
\* the call was rejected and the port carries the one result.
C21_Witness ==
    /\ call.op = "postResult" /\ call.ret = "ResultAlreadyPosted"
    /\ req[Opener].exchangePort = "open"
    /\ req[Opener].xch.callbackPromise = "pending"
    /\ req[Opener].exOut = <<Str("ok")>>

\* C22: when the consumer's promise (what the using callback returned)
\* rejects after the offer was delivered, the promise of the accepting role
\* rejects with the consumer's reason, whether or not a result was posted,
\* an acknowledgment received or the closing signal fired before.
C22_ConsumerRejectionRejects ==
    [][(call'.op = "usingSettles" /\ call'.s = Opener /\ call'.arg # "")
          => /\ req[Opener].xch.p = Pending
             /\ req'[Opener].xch.p = Rejected(call'.arg)]_vars

\* The consumer posted a result, the session was cancelled, and then the
\* consumer's promise rejected: the accepting role's promise is rejected.
C22_Witness ==
    /\ call.op = "usingSettles" /\ call.arg = "connectFailed"
    /\ Accepting
    /\ ~req[Opener].xch.waitingForResult
    /\ req[Opener].closingPromise
    /\ req[Opener].xch.p = Rejected("connectFailed")

\* The session's exchange waits for the caller's code: a consumer promise
\* not yet settled, or a using callback that has not posted its offer.
WaitsForCallerCode ==
    \/ req[Opener].xch.role = "recv" /\ req[Opener].xch.callbackPromise = "pending"
    \/ req[Opener].xch.role = "send" /\ ~req[Opener].xch.offerPosted

\* C23: no exchange hangs after closing.  Once the closing signal has fired
\* and the role is not waiting for the caller's code (the producer has
\* posted, the consumer's promise has settled or no offer ever came), the
\* promise of the offering or accepting role has settled: the closing
\* reaction and the callback reaction are all that was left to run.
C23_NoHangAfterClosing ==
    (/\ req[Opener].xch.role \in {"send", "recv"}
     /\ req[Opener].closingPromise
     /\ ~WaitsForCallerCode)
        => req[Opener].xch.p # Pending

(* --------------------- claims: getRequest of the service ---------------- *)

\* The request a valid 'request' message carrying the named list makes.
CapturedFrom(name) ==
    IF name = "A"
    THEN <<[form |-> "f", side |-> "accepting", having |-> NoHaving,
            origin |-> ReqOrigin]>>
    ELSE <<[form |-> "g", side |-> "offering", having |-> NoHaving,
            origin |-> ReqOrigin],
           [form |-> "g", side |-> "accepting", having |-> NoHaving,
            origin |-> ReqOrigin]>>

\* The listener got a valid 'request' message from the opener.
ValidRequestArrives ==
    call'.op = "svcMessage" /\ call'.msg.fromPopup /\ call'.msg.body = "request"

\* C24: getRequest is idempotent once a request is captured.  The first
\* valid 'request' message from the opener sets the shared pending request;
\* from then on the request and its connect port are never replaced or
\* altered by any message, valid or not, and every getRequest call returns
\* the captured request at once: it waits under no key, posts no
\* get-request and changes nothing else.
C24_CapturedRequestStays ==
    [][/\ (~svc.hasRequest /\ ValidRequestArrives)
            => /\ svc'.hasRequest
               /\ svc'.matching = CapturedFrom(call'.msg.arg)
               /\ svc'.connectPort = RequestPort(call'.msg.arg)
       /\ svc.hasRequest
            => /\ svc'.hasRequest
               /\ svc'.matching = svc.matching
               /\ svc'.connectPort = svc.connectPort
               /\ call'.op = "svcMessage" => svc' = svc
               /\ call'.op = "getRequest"
                    => svc' = [svc EXCEPT !.results =
                                  Append(@, [key |-> 0, st |-> "request"])]]_vars

\* The request of list A was captured, a later getRequest call returned it
\* at once, and then a valid 'request' message with list B arrived: the
\* captured request is still the one of list A.
C24_Witness ==
    /\ call.op = "svcMessage" /\ call.msg.fromPopup
    /\ call.msg.body = "request" /\ call.msg.arg = "B"
    /\ svc.hasRequest
    /\ svc.matching = CapturedFrom("A") /\ svc.connectPort = RequestPort("A")
    /\ Len(svc.results) = 2
    /\ svc.results[1] = [key |-> 1, st |-> "request"]
    /\ svc.results[2] = [key |-> 0, st |-> "request"]

\* The result of the getRequest call that waits under key k.
ResultOf(sv, k) ==
    LET i == CHOOSE j \in DOMAIN sv.results : sv.results[j].key = k
    IN  sv.results[i].st

\* C25: concurrent getRequest callers race independently.  A caller is
\* pending exactly while it is in the waiting set.  When a caller leaves the
\* waiting set with no request captured (its own timeout), it resolves
\* undefined and nothing else of the service changes: the listener stays
\* armed and the other callers stay as they were.  When a request is
\* captured every caller still pending resolves with it.  A promise that
\* has resolved never changes again.
C25_CallersRaceIndependently ==
    [][/\ \A i \in DOMAIN svc.results :
             /\ (svc.results[i].st = "pending") = (svc.results[i].key \in svc.waiting)
             /\ svc.results[i].st # "pending"
                  => /\ i \in DOMAIN svc'.results
                     /\ svc'.results[i] = svc.results[i]
       /\ \A k \in svc.waiting :
             (k \notin svc'.waiting /\ ~svc'.hasRequest)
                 => /\ ResultOf(svc', k) = "undefined"
                    /\ svc'.listening
                    /\ svc' = [svc EXCEPT
                                  !.waiting = @ \ {k},
                                  !.results = [i \in DOMAIN @ |->
                                      IF @[i].key = k
                                      THEN [@[i] EXCEPT !.st = "undefined"]
                                      ELSE @[i]]]
       /\ (~svc.hasRequest /\ svc'.hasRequest)
             => /\ svc'.waiting = {}
                /\ \A k \in svc.waiting : ResultOf(svc', k) = "request"]_vars

\* Two callers waited; the first timed out and resolved undefined, then the
\* request arrived and the second resolved with it.
C25_Witness ==
    /\ call.op = "svcMessage"
    /\ svc.hasRequest
    /\ svc.listening
    /\ svc.waiting = {}
    /\ svc.results = <<[key |-> 1, st |-> "undefined"],
                       [key |-> 2, st |-> "request"]>>

(* -------------------- claims: the sessions of a page -------------------- *)

\* The last task made the open() of session s fail: in the call itself, or
\* in the handler of a message of the handshake.
OpenFails(s) ==
    /\ call'.s = s
    /\ call'.op \in {"open", "message", "connect"}
    /\ req[s].openPromise = Pending
    /\ req'[s].openPromise.st = "rejected"

\* C26: failures are local to one session.  A task in which the open() of
\* a session fails changes the state, the closing signal and the outcome
\* of no other session, and leaves the service's pending request alone.
C26_FailuresAreLocal ==
    [][\A s \in Sessions :
          OpenFails(s)
              => /\ \A t \in Sessions \ {s} :
                       /\ req'[t].state = req[t].state
                       /\ req'[t].closingPromise = req[t].closingPromise
                       /\ req'[t].openPromise = req[t].openPromise
                 /\ svc' = svc]_vars

\* C27: the closing promise resolves only for a session on which open()
\* was invoked.  While the session is still 'created' no operation other
\* than open() resolves its closing promise.
C27_ClosingNeedsOpen ==
    [][(req[Opener].state = "created" /\ ~(call'.op = "open" /\ call'.s = Opener))
           => ~req'[Opener].closingPromise]_vars

\* The order of the states of a session.
StateRank(state) ==
    CASE state = "created" -> 0 [] state = "open" -> 1 [] state = "complete" -> 2

\* C28: the state of a session never moves backwards.  Only open() moves
\* it from 'created' to 'open'; 'complete' is absorbing under every
\* operation and message; and whatever completes the session (cancel, a
\* close message, the loss of the popup, a protocol violation) does it in
\* the one transition of x, which also takes the session out of
\* ModalRequest.current.
C28_StateOnlyAdvances ==
    [][/\ StateRank(req'[Opener].state) >= StateRank(req[Opener].state)
       /\ (req[Opener].state = "created" /\ req'[Opener].state = "open")
             => call'.op = "open" /\ call'.s = Opener
       /\ req[Opener].state = "complete" => req'[Opener].state = "complete"
       /\ (req[Opener].state # "complete" /\ req'[Opener].state = "complete")
             => current' # Opener]_vars

\* The session was completed by a protocol violation of its popup, and
\* open() was called on it again: it stays complete.
C28_Witness ==
    /\ call.op = "open" /\ call.s = Opener /\ call.ret = "AlreadyOpened"
    /\ req[Opener].state = "complete"
    /\ req[Opener].openPromise = Rejected("InvalidConnectMessage")

\* C29: 'done' on the status port is a one-shot datagram.  Over any
\* sequence of events the session posts at most one 'done' on its status
\* port.
C29_DoneAtMostOnce == Len(req[Opener].stOut) <= 1

(* -------------------- claims: the offering role, again ------------------ *)

\* C30: a rejected second post does not disturb the first.  After a second
\* call of postOffer was rejected with OfferAlreadyPosted, the reply of the
\* peer arriving on the open exchange port still resolves the pending
\* promise of the first call, and the acknowledgment is posted.
C30_RejectedPostLeavesFirst ==
    [][(/\ call'.op = "exchange" /\ call'.s = Opener
        /\ req[Opener].xch.role = "send"
        /\ req[Opener].xch.staleHandler
        /\ req[Opener].xch.sendWaitingForResult
        /\ req[Opener].xch.p = Pending)
           => /\ req'[Opener].xch.p.st = "resolved"
              /\ req'[Opener].xch.via = "reply"
              /\ req'[Opener].exOut = Append(req[Opener].exOut, Null)]_vars

(* ------------------ claims: the accepting role, ordering ---------------- *)

\* The last message the session posted on its exchange port is the null it
\* answers an acknowledgment with, and the result went out before it.
AcknowledgedAfterResult ==
    /\ Len(req[Opener].exOut) = 2
    /\ req[Opener].exOut[2] = Null
    /\ ~req[Opener].xch.waitingForAck

\* C31: in the accepting role, as long as the closing signal has not
\* fired, the promise of the role has resolved only if a result was
\* posted, the acknowledgment of the sender was received after it and the
\* consumer's promise has settled; its value is the consumer's.
C31_ResolvesAfterResultAckConsumer ==
    (/\ Accepting
     /\ ~req[Opener].closingPromise
     /\ req[Opener].xch.p.st = "resolved")
        => /\ ~req[Opener].xch.waitingForResult
           /\ ~req[Opener].xch.waitingForCallback
           /\ req[Opener].xch.p.value = req[Opener].xch.resolveValue
           /\ AcknowledgedAfterResult

\* What the consumer has produced so far: the value its promise settled
\* with, or the empty DataArray.
ProducedSoFar ==
    IF req[Opener].xch.waitingForOffer \/ req[Opener].xch.waitingForCallback
    THEN arrayify(Undefined)
    ELSE req[Opener].xch.resolveValue

\* C32: in the accepting role, when the closing signal fires before the
\* acknowledgment is received, the promise of the role resolves in the
\* same task, without waiting for the consumer or for a message, with what
\* the consumer has produced so far.
C32_ClosingResolvesAtOnce ==
    [][(/\ Accepting
        /\ req[Opener].xch.p = Pending
        /\ req[Opener].xch.waitingForAck
        /\ ~req[Opener].closingPromise
        /\ req'[Opener].closingPromise)
           => req'[Opener].xch.p = Fulfilled(ProducedSoFar)]_vars

\* C33: strict ordering in the accepting role.  A message that arrives
\* after the offer and before any result was posted is not taken as the
\* acknowledgment: postResult is not confirmed by it, the role does not
\* stop waiting for the acknowledgment and does not resolve on it.
C33_NoAckBeforeResult ==
    [][(/\ call'.op = "exchange" /\ call'.s = Opener
        /\ Accepting
        /\ ~req[Opener].xch.waitingForOffer
        /\ req[Opener].xch.waitingForResult)
           => /\ req'[Opener].xch.postResultPromise = req[Opener].xch.postResultPromise
              /\ req'[Opener].xch.waitingForAck = req[Opener].xch.waitingForAck
              /\ req'[Opener].xch.p = req[Opener].xch.p]_vars

\* The consumer's promise resolves and the consumer has not called
\* postResult.
ConsumerResolvesUnposted ==
    /\ call'.op = "usingSettles" /\ call'.s = Opener /\ call'.arg = ""
    /\ Accepting
    /\ req[Opener].xch.waitingForResult

\* What the port carries once data was posted on it.
Posted(data) ==
    IF req[Opener].exchangePort = "open" THEN Append(req[Opener].exOut, data)
    ELSE req[Opener].exOut

C35_OfferPortsClosed ==
    (/\ Accepting
     /\ req[Opener].closingPromise
     /\ req[Opener].xch.ports # "none")
        => req[Opener].xch.ports = "closed"

\* The using callback was given the offer and its ports and was still
\* pending when the session was cancelled: the ports are closed.
C35_Witness ==
    /\ call.op = "cancel"
    /\ Accepting
    /\ req[Opener].closingPromise
    /\ req[Opener].xch.callbackPromise = "pending"
    /\ req[Opener].xch.p = Pending
    /\ req[Opener].xch.ports = "closed"

(* ----------------------------- claims: toCats --------------------------- *)

\* The side and the forms an Intent declares.
DeclaredSide(m) == IF Truthy(m.accepting) THEN "accepting" ELSE "offering"

DeclaredForms(m) == IF Truthy(m.accepting) THEN m.accepting.f ELSE m.offering.f

\* An Intent toCats must refuse: no object, not exactly one of accepting
\* and offering, or a form that is no string.
MalformedIntent(m) ==
    \/ ~m.obj
    \/ Truthy(m.accepting) = Truthy(m.offering)
    \/ \E i \in DOMAIN DeclaredForms(m) : DeclaredForms(m)[i] = NotAString

\* The Cats of a list of well-formed Intents: those of the first Intent,
\* one per form in the order of its forms, then those of the rest.
RECURSIVE ExpandedInPlace(_)
ExpandedInPlace(ms) ==
    IF ms = <<>> THEN <<>>
    ELSE [i \in DOMAIN DeclaredForms(Head(ms)) |->
             [side |-> DeclaredSide(Head(ms)), form |-> DeclaredForms(Head(ms))[i],
              having |-> Head(ms).having, kind |-> Head(ms).kind,
              data |-> Head(ms).data]]
         \o ExpandedInPlace(Tail(ms))

\* C36: toCats keeps the order of declaration, an Intent of several forms
\* expanded in place into one Cat per form, and is all-or-nothing: it
\* fails, leaving no Cat, if any Intent of the list is no object, does not
\* have exactly one of accepting and offering, or has a form that is no
\* string.
C36_ToCatsInOrderOrNothing ==
    (call.op = "open" /\ call.s = Opener /\ call.intents # <<>>)
        => IF \E i \in DOMAIN call.intents : MalformedIntent(call.intents[i])
           THEN /\ req[Opener].cats = <<>>
                /\ req[Opener].openPromise.st = "rejected"
                /\ req[Opener].openPromise.err \in
                      {"MatcherNotAnObject", "MatcherDoesNotHaveAcceptingXorOffering",
                       "MatcherFormNotAString"}
           ELSE /\ req[Opener].cats = ExpandedInPlace(call.intents)
                /\ req[Opener].openPromise = Pending

\* open() was given an offer of forms g and f followed by an acceptor of
\* forms f and g: four Cats, in that order.
C36_Witness ==
    /\ call.op = "open"
    /\ Len(call.intents) = 2
    /\ call.intents[1].offering = Many(<<"g", "f">>)
    /\ call.intents[2].accepting = Many(<<"f", "g">>)
    /\ Len(req[Opener].cats) = 4
    /\ req[Opener].cats[1].side = "offering" /\ req[Opener].cats[1].form = "g"
    /\ req[Opener].cats[2].side = "offering" /\ req[Opener].cats[2].form = "f"
    /\ req[Opener].cats[3].side = "accepting" /\ req[Opener].cats[3].form = "f"
    /\ req[Opener].cats[4].side = "accepting" /\ req[Opener].cats[4].form = "g"
    /\ req[Opener].cats[1].having = "h2" /\ req[Opener].cats[4].having = "h1"

(* ------------------- claims: the status port and 'done' ----------------- *)

\* The session, in the offering role, got the result of the service and
\* answered it with its acknowledgment; it was not cancelled and the popup
\* is still there.
ResultAcknowledged ==
    /\ req[Opener].xch.role = "send"
    /\ req[Opener].xch.via = "reply"
    /\ req[Opener].state = "open"
    /\ req[Opener].popup = "open"
    /\ ~svc.unloaded

\* C37: the confirmation of postResult is consistent with delivery.  When
\* the offering session has received the result and posted its
\* acknowledgment, the postResult promise of the accepting service is
\* never resolved false, however the acknowledgment on the exchange port
\* and the 'done' on the status port are interleaved.
C37_AcknowledgedIsConfirmed ==
    (ResultAcknowledged /\ svc.xch.role = "recv")
        => svc.xch.postResultPromise # "false"

\* C38: the 'done' acknowledgment is bilateral.  When the ['done'] the
\* service posted reaches the open status port of the session, the
\* closing signal of the session fires, whether or not its own connect
\* promise has resolved.
C38_DoneFiresClosing ==
    [][(/\ svc.stOut # <<>>
        /\ svc'.stOut = Tail(svc.stOut)
        /\ req[Opener].statusPort = "open")
           => req'[Opener].closingPromise]_vars

\* -------------------------------------------------------------------------
\* claims: a failed open()

\* C39: a failed open() leaves the session complete.  Whenever the
\* promise open() returned has been rejected, the session is in state
\* 'complete', it is no longer ModalRequest.current, and its closing
\* signal has fired.
C39_FailedOpenIsComplete ==
    \A s \in Sessions :
        req[s].openPromise.st = "rejected"
            => /\ req[s].state = "complete"
               /\ current # s
               /\ req[s].closingPromise

\* -------------------------------------------------------------------------
\* claims: closing before the offer

\* Closing fired on the accepting session while it was still waiting for
\* the offer, and the role resolved with the empty DataArray.
ClosedBeforeOffer ==
    /\ Accepting
    /\ req[Opener].closingPromise
    /\ req[Opener].xch.waitingForOffer
    /\ req[Opener].xch.p = Fulfilled(arrayify(Undefined))

\* C40: closing takes priority over a late offer.  Once closing fired
\* before any offer arrived, no later step, the arrival of the offer
\* included, invokes the consumer or posts a result message: the role
\* still waits for the offer, no consumer promise exists, and nothing is
\* added to what the session posted on the exchange port.
C40_LateOfferIsIgnored ==
    [][ClosedBeforeOffer
          => /\ req'[Opener].xch.waitingForOffer
             /\ req'[Opener].xch.callbackPromise = "none"
             /\ req'[Opener].xch.offer = req[Opener].xch.offer
             /\ req'[Opener].exOut = req[Opener].exOut]_vars

\* The offer of the service was posted and has reached the session after
\* closing: it is gone from the channel and the session never took it.
C40_Witness ==
    /\ ClosedBeforeOffer
    /\ svc.xch.role = "send"
    /\ svc.xch.offerPosted
    /\ svc.exOut = <<>>
    /\ req[Opener].xch.callbackPromise = "none"
    /\ req[Opener].exOut = <<>>

=============================================================================
